---- MODULE Spec2Model ----
(***************************************************************************)
(* Model of the PixelHQ bridge: the SessionManager registry (session       *)
(* lifecycle, TTL reaper, FIFO spawn/file correlation) and the bridge's    *)
(* two watcher handlers (session discovery and handleNewLine) that drive   *)
(* it.  Every handler runs to completion on the Node.js event loop, so     *)
(* each is one atomic action.                                              *)
(***************************************************************************)
EXTENDS Integers, Sequences, FiniteSets, TLC

(***************************************************************************)
(* Bounds and identifier alphabets                                         *)
(***************************************************************************)
\* the clock advances in steps of one reaper interval, MaxTicks times
MaxTicks == 5
\* a sessionId is (re-)registered at most MaxStarts times
MaxStarts == 2
\* pendingSpawnQueue holds at most MaxQueue entries
MaxQueue == 2
\* number of distinct ids used by the correlation-only specification
MaxCorr == 3
MaxLines == 2
MaxInflight == 2
MaxEmitted == 5
MaxTokens == 3
MaxRestarts == 2
MaxSent == 3
MaxFrameTicks == 1
MaxAgentEvents == 2

NULL == "null"

SessionIds == {"s1", "s2"}
AgentFileIds == {"f1", "f2"}
ToolUseIds == {"t1", "t2"}
Projects == {"p1", "p2"}
Sources == {"claude-code", "other"}

\* config.sessionTtlMs and config.sessionReapIntervalMs
sessionTtlMs == 120000
sessionReapIntervalMs == 30000

(***************************************************************************)
(* State                                                                   *)
(***************************************************************************)
VARIABLES
  sessions,      \* SessionManager.sessions: Map in insertion order, a sequence of SessionInfo
  reapTimer,     \* SessionManager._reapTimer is set
  now,           \* Date.now()
  broadcast,     \* events handed to server.broadcast by the last handler, in order
  startedCount,  \* history: Session.started events emitted so far, per sessionId
  endedCount,    \* history: Session.ended events emitted so far, per sessionId
  lastOp,        \* history: the last operation, its arguments and return value
  spawnOrder,    \* history: toolUseIds in trackTaskSpawn call order
  fileOrder,     \* history: fileAgentIds in correlateAgentFile call order
  agentLog,      \* history: agentIds broadcast per sub-agent file, Agent events per agentId
  timers,        \* the event loop: number of active setInterval timers of the reaper
  files,         \* the watched log files: lines appended so far, 'add' reported by chokidar
  watcher,       \* SessionWatcher: filePositions and trackedSessions
  inflight,      \* handleFileChange calls suspended at await readNewLines, oldest first
  emitted,       \* history: the 'session' and 'line' signals emitted by the watcher
  server,        \* BroadcastServer: clients and authenticatedClients
  sockets,       \* readyState of each WebSocket
  sent,          \* history: types of the messages sent to each WebSocket
  auth,          \* AuthManager: pairingCode and tokens
  tokenFile,     \* the token file on disk
  authHist       \* history: tokens issued and revoked, the token each socket
                 \* authenticated with, and the last auth operation

cvars == <<sessions, reapTimer, timers, now, broadcast, startedCount, endedCount, lastOp>>
hvars == <<spawnOrder, fileOrder, agentLog>>
wvars == <<files, watcher, inflight, emitted>>
svars == <<server, sockets, sent, auth, tokenFile, authHist>>
xvars == <<wvars, svars>>
ovars == <<hvars, xvars>>
vars == <<sessions, reapTimer, timers, now, broadcast, startedCount, endedCount, lastOp,
          spawnOrder, fileOrder, agentLog, files, watcher, inflight, emitted,
          server, sockets, sent, auth, tokenFile, authHist>>

(***************************************************************************)
(* Generic helpers                                                         *)
(***************************************************************************)
Range(q) == {q[i] : i \in 1..Len(q)}

\* Map<string, SessionInfo> kept as its entries in insertion order
has(reg, sid) == \E i \in 1..Len(reg) : reg[i].sessionId = sid
idx(reg, sid) == CHOOSE i \in 1..Len(reg) : reg[i].sessionId = sid
get(reg, sid) == reg[idx(reg, sid)]
put(reg, sess) ==
  IF has(reg, sess.sessionId)
  THEN [reg EXCEPT ![idx(reg, sess.sessionId)] = sess]
  ELSE Append(reg, sess)
del(reg, sid) == SelectSeq(reg, LAMBDA e : e.sessionId # sid)

\* agentIdMap: Map<fileAgentId, toolUseId> kept as its entries in insertion order
mapHas(map, f) == \E i \in 1..Len(map) : map[i].file = f
mapGet(map, f) == map[CHOOSE i \in 1..Len(map) : map[i].file = f].tool
mapSet(map, f, t) ==
  IF mapHas(map, f)
  THEN [map EXCEPT ![CHOOSE i \in 1..Len(map) : map[i].file = f] = [file |-> f, tool |-> t]]
  ELSE Append(map, [file |-> f, tool |-> t])
mapDelete(map, f) == SelectSeq(map, LAMBDA e : e.file # f)

(***************************************************************************)
(* Events (pixel-events.ts).  A field that the factory omits is NULL.      *)
(***************************************************************************)
\* TokenUsage; present is FALSE when the event carries no tokens field
NoTokens == [present |-> FALSE, input |-> 0, output |-> 0]

BaseEvent(type, sid) ==
  [type |-> type, sessionId |-> sid, agentId |-> NULL, action |-> NULL,
   tool |-> NULL, detail |-> NULL, status |-> NULL, toolUseId |-> NULL,
   context |-> NULL, agentRole |-> NULL, tokens |-> NoTokens, severity |-> NULL,
   project |-> NULL, source |-> NULL]

\* a value that is undefined, null or the empty string is falsy
Falsy(v) == v \in {NULL, ""}
\* ...(v && { v }): a falsy value leaves the field out
Opt(v) == IF Falsy(v) THEN NULL ELSE v

createSessionEvent(sid, action, project, source) ==
  [BaseEvent("session", sid) EXCEPT !.action = action, !.project = Opt(project),
                                    !.source = Opt(source)]

createActivityEvent(sid, agentId, action, tokens) ==
  [BaseEvent("activity", sid) EXCEPT !.agentId = Opt(agentId), !.action = action,
                                     !.tokens = tokens]

createToolEvent(sid, agentId, tool, detail, status, toolUseId, context) ==
  [BaseEvent("tool", sid) EXCEPT !.agentId = Opt(agentId), !.tool = tool,
                                 !.detail = Opt(detail), !.status = status,
                                 !.toolUseId = toolUseId, !.context = Opt(context)]

createAgentEvent(sid, agentId, action, agentRole) ==
  [BaseEvent("agent", sid) EXCEPT !.agentId = Opt(agentId), !.action = action,
                                  !.agentRole = Opt(agentRole)]

createErrorEvent(sid, agentId, severity) ==
  [BaseEvent("error", sid) EXCEPT !.agentId = Opt(agentId), !.severity = severity]

\* toBasename: a path is the sequence of its '/'-separated parts, <<>> when
\* the value is absent and <<"">> when it is the empty string
toBasename(filePath) ==
  IF filePath = <<>> THEN NULL
  ELSE IF filePath[Len(filePath)] = "" THEN NULL
  ELSE filePath[Len(filePath)]

createSummaryEvent(sid) == BaseEvent("summary", sid)

(***************************************************************************)
(* SessionManager (session.ts).  Each method is an operator on             *)
(*   m = [sessions |-> the Map, out |-> events emitted so far by the       *)
(*        running handler]                                                 *)
(* and returns the m it leaves behind; t is the value of new Date().       *)
(* The 'event' listener of index.ts hands every emitted event to           *)
(* server.broadcast synchronously, so emissions are appended to out.       *)
(***************************************************************************)
NewSession(sid, project, source, t) ==
  [sessionId |-> sid, project |-> project, source |-> source, lastEventAt |-> t,
   agentIds |-> {}, pendingTaskIds |-> {}, pendingSpawnQueue |-> <<>>,
   agentIdMap |-> <<>>, deferredAgentFiles |-> <<>>]

\* registerSession that emits Session.started on every call
registerSession_reemit(m, sid, project, agentId, source, t) ==
  LET m1 == [sessions |-> IF has(m.sessions, sid) THEN m.sessions
                          ELSE Append(m.sessions, NewSession(sid, project, source, t)),
             out |-> Append(m.out, createSessionEvent(sid, "started", project, source))]
      session == get(m1.sessions, sid)
  IN IF agentId # NULL /\ agentId \notin session.agentIds
     THEN [m1 EXCEPT !.sessions =
             put(m1.sessions, [session EXCEPT !.agentIds = @ \cup {agentId}])]
     ELSE m1

\* registerSession that replaces agentIds by the given agentId
registerSession_reset(m, sid, project, agentId, source, t) ==
  LET m1 == IF has(m.sessions, sid)
            THEN m
            ELSE [sessions |-> Append(m.sessions, NewSession(sid, project, source, t)),
                  out |-> Append(m.out, createSessionEvent(sid, "started", project, source))]
      session == get(m1.sessions, sid)
  IN IF agentId # NULL /\ agentId \notin session.agentIds
     THEN [m1 EXCEPT !.sessions = put(m1.sessions, [session EXCEPT !.agentIds = {agentId}])]
     ELSE m1

\* registerSession that refreshes project, source and lastEventAt of a
\* session already registered
registerSession_overwrite(m, sid, project, agentId, source, t) ==
  LET m1 == IF has(m.sessions, sid)
            THEN [m EXCEPT !.sessions =
                    put(m.sessions, [get(m.sessions, sid) EXCEPT !.project = project,
                                       !.source = source, !.lastEventAt = t])]
            ELSE [sessions |-> Append(m.sessions, NewSession(sid, project, source, t)),
                  out |-> Append(m.out, createSessionEvent(sid, "started", project, source))]
      session == get(m1.sessions, sid)
  IN IF agentId # NULL /\ agentId \notin session.agentIds
     THEN [m1 EXCEPT !.sessions =
             put(m1.sessions, [session EXCEPT !.agentIds = @ \cup {agentId}])]
     ELSE m1

registerSession(m, sid, project, agentId, source, t) ==
  LET m1 == IF has(m.sessions, sid)
            THEN m
            ELSE [sessions |-> Append(m.sessions, NewSession(sid, project, source, t)),
                  out |-> Append(m.out, createSessionEvent(sid, "started", project, source))]
      session == get(m1.sessions, sid)
  IN IF agentId # NULL /\ agentId \notin session.agentIds
     THEN [m1 EXCEPT !.sessions =
             put(m1.sessions, [session EXCEPT !.agentIds = @ \cup {agentId}])]
     ELSE m1

recordActivity(m, sid, t) ==
  IF ~has(m.sessions, sid) THEN m
  ELSE [m EXCEPT !.sessions = put(m.sessions, [get(m.sessions, sid) EXCEPT !.lastEventAt = t])]

\* removeSession that emits Session.ended and leaves the entry in the Map
removeSession_keepState(m, sid) ==
  IF ~has(m.sessions, sid) THEN m
  ELSE LET session == get(m.sessions, sid)
       IN [sessions |-> m.sessions,
           out |-> Append(m.out, createSessionEvent(sid, "ended", session.project,
                                                    session.source))]

\* removeSession without the early return for an unknown sessionId
removeSession_noCheck(m, sid) ==
  [sessions |-> del(m.sessions, sid),
   out |-> Append(m.out, createSessionEvent(sid, "ended", NULL, NULL))]

removeSession(m, sid) ==
  IF ~has(m.sessions, sid) THEN m
  ELSE LET session == get(m.sessions, sid)
       IN [sessions |-> del(m.sessions, sid),
           out |-> Append(m.out, createSessionEvent(sid, "ended", session.project,
                                                    session.source))]

\* the for-of loop of _reapStaleSessions over the Map's entries; ids is the
\* part of the key order still to visit
keys(reg) == [i \in 1..Len(reg) |-> reg[i].sessionId]

\* the sweep with age >= TTL in place of age > TTL
RECURSIVE reapLoop_inclusive(_, _, _)
reapLoop_inclusive(m, ids, t) ==
  IF ids = <<>> THEN m
  ELSE LET sid == Head(ids)
           age == t - get(m.sessions, sid).lastEventAt
       IN reapLoop_inclusive(IF age >= sessionTtlMs THEN removeSession(m, sid) ELSE m,
                             Tail(ids), t)

RECURSIVE reapLoop(_, _, _)
reapLoop(m, ids, t) ==
  IF ids = <<>> THEN m
  ELSE LET sid == Head(ids)
           age == t - get(m.sessions, sid).lastEventAt
       IN reapLoop(IF age > sessionTtlMs THEN removeSession(m, sid) ELSE m, Tail(ids), t)

_reapStaleSessions(m, t) ==
  reapLoop(m, keys(m.sessions), t)

\* the drain loop taking the newest deferred file (pop) instead of the oldest (shift)
RECURSIVE drainDeferred_newest(_)
drainDeferred_newest(session) ==
  IF session.deferredAgentFiles # <<>> /\ session.pendingSpawnQueue # <<>>
  THEN LET n == Len(session.deferredAgentFiles)
       IN drainDeferred_newest([session EXCEPT
            !.deferredAgentFiles = SubSeq(@, 1, n - 1),
            !.pendingSpawnQueue = Tail(@),
            !.agentIdMap = mapSet(@, session.deferredAgentFiles[n],
                                  Head(session.pendingSpawnQueue))])
  ELSE session

\* the while loop of _processDeferredAgentFiles on one SessionInfo
RECURSIVE drainDeferred(_)
drainDeferred(session) ==
  IF session.deferredAgentFiles # <<>> /\ session.pendingSpawnQueue # <<>>
  THEN drainDeferred([session EXCEPT
         !.deferredAgentFiles = Tail(@),
         !.pendingSpawnQueue = Tail(@),
         !.agentIdMap = mapSet(@, Head(session.deferredAgentFiles),
                               Head(session.pendingSpawnQueue))])
  ELSE session

_processDeferredAgentFiles(m, sid) ==
  IF ~has(m.sessions, sid) THEN m
  ELSE [m EXCEPT !.sessions = put(m.sessions, drainDeferred(get(m.sessions, sid)))]

\* trackTaskSpawn that creates an entry for a sessionId it does not know
trackTaskSpawn_autoRegister(m, sid, toolUseId) ==
  LET reg == IF has(m.sessions, sid) THEN m.sessions
             ELSE Append(m.sessions, NewSession(sid, NULL, NULL, 0))
  IN _processDeferredAgentFiles(
       [m EXCEPT !.sessions = put(reg,
          [get(reg, sid) EXCEPT !.pendingTaskIds = @ \cup {toolUseId},
                                !.pendingSpawnQueue = Append(@, toolUseId)])],
       sid)

trackTaskSpawn(m, sid, toolUseId) ==
  IF ~has(m.sessions, sid) THEN m
  ELSE _processDeferredAgentFiles(
         [m EXCEPT !.sessions = put(m.sessions,
            [get(m.sessions, sid) EXCEPT !.pendingTaskIds = @ \cup {toolUseId},
                                         !.pendingSpawnQueue = Append(@, toolUseId)])],
         sid)

\* handleTaskResult that reports the pending id and does not delete it
handleTaskResult_keep(m, sid, toolUseId) ==
  IF ~has(m.sessions, sid) THEN [m |-> m, ret |-> FALSE]
  ELSE [m |-> m, ret |-> toolUseId \in get(m.sessions, sid).pendingTaskIds]

\* returns [m |-> ..., ret |-> the boolean result]
handleTaskResult(m, sid, toolUseId) ==
  IF ~has(m.sessions, sid) THEN [m |-> m, ret |-> FALSE]
  ELSE LET session == get(m.sessions, sid)
       IN [m |-> [m EXCEPT !.sessions =
                    put(m.sessions, [session EXCEPT !.pendingTaskIds = @ \ {toolUseId}])],
           ret |-> toolUseId \in session.pendingTaskIds]

isTaskPending(reg, sid, toolUseId) ==
  IF ~has(reg, sid) THEN FALSE
  ELSE toolUseId \in get(reg, sid).pendingTaskIds

\* the for-of loop with break: the first entry whose value is agentId goes
firstMapped(map, agentId) ==
  IF \E i \in 1..Len(map) : map[i].tool = agentId
  THEN LET i == CHOOSE k \in 1..Len(map) :
                  /\ map[k].tool = agentId
                  /\ \A j \in 1..(k - 1) : map[j].tool # agentId
       IN mapDelete(map, map[i].file)
  ELSE map

agentCompleted(m, sid, agentId) ==
  IF ~has(m.sessions, sid) THEN m
  ELSE [m EXCEPT !.sessions = put(m.sessions,
          [get(m.sessions, sid) EXCEPT !.agentIds = @ \ {agentId},
                                       !.agentIdMap = firstMapped(@, agentId)])]

\* correlateAgentFile taking the newest pending spawn (pop) instead of the oldest (shift)
correlateAgentFile_lifo(m, sid, fileAgentId) ==
  IF ~has(m.sessions, sid) THEN m
  ELSE LET session == get(m.sessions, sid)
           n == Len(session.pendingSpawnQueue)
       IN IF mapHas(session.agentIdMap, fileAgentId) THEN m
          ELSE IF session.pendingSpawnQueue # <<>>
          THEN [m EXCEPT !.sessions = put(m.sessions,
                 [session EXCEPT !.pendingSpawnQueue = SubSeq(@, 1, n - 1),
                                 !.agentIdMap = mapSet(@, fileAgentId,
                                                       session.pendingSpawnQueue[n])])]
          ELSE IF fileAgentId \in Range(session.deferredAgentFiles) THEN m
          ELSE [m EXCEPT !.sessions = put(m.sessions,
                 [session EXCEPT !.deferredAgentFiles = Append(@, fileAgentId)])]

\* correlateAgentFile without the early return for a file that has a map entry
correlateAgentFile_noMapCheck(m, sid, fileAgentId) ==
  IF ~has(m.sessions, sid) THEN m
  ELSE LET session == get(m.sessions, sid)
       IN IF session.pendingSpawnQueue # <<>>
          THEN [m EXCEPT !.sessions = put(m.sessions,
                 [session EXCEPT !.pendingSpawnQueue = Tail(@),
                                 !.agentIdMap = mapSet(@, fileAgentId,
                                                       Head(session.pendingSpawnQueue))])]
          ELSE IF fileAgentId \in Range(session.deferredAgentFiles) THEN m
          ELSE [m EXCEPT !.sessions = put(m.sessions,
                 [session EXCEPT !.deferredAgentFiles = Append(@, fileAgentId)])]

correlateAgentFile(m, sid, fileAgentId) ==
  IF ~has(m.sessions, sid) THEN m
  ELSE LET session == get(m.sessions, sid)
       IN IF mapHas(session.agentIdMap, fileAgentId) THEN m
          ELSE IF session.pendingSpawnQueue # <<>>
          THEN [m EXCEPT !.sessions = put(m.sessions,
                 [session EXCEPT !.pendingSpawnQueue = Tail(@),
                                 !.agentIdMap = mapSet(@, fileAgentId,
                                                       Head(session.pendingSpawnQueue))])]
          ELSE IF fileAgentId \in Range(session.deferredAgentFiles) THEN m
          ELSE [m EXCEPT !.sessions = put(m.sessions,
                 [session EXCEPT !.deferredAgentFiles = Append(@, fileAgentId)])]

resolveAgentId(reg, sid, fileAgentId) ==
  IF ~has(reg, sid) THEN fileAgentId
  ELSE IF mapHas(get(reg, sid).agentIdMap, fileAgentId)
       THEN mapGet(get(reg, sid).agentIdMap, fileAgentId)
       ELSE fileAgentId

\* Date.prototype.toISOString: the time rendered as text
toISOString(t) == ToString(t)

\* getState that also copies the correlation map into the snapshot
getState_withInternals(reg) ==
  [i \in 1..Len(reg) |->
     [sessionId |-> reg[i].sessionId,
      project |-> reg[i].project,
      source |-> reg[i].source,
      lastEventAt |-> toISOString(reg[i].lastEventAt),
      agentIds |-> reg[i].agentIds,
      pendingTaskIds |-> reg[i].pendingTaskIds,
      agentIdMap |-> reg[i].agentIdMap]]

\* getState().sessions: one entry per Map entry, in insertion order
getState(reg) ==
  [i \in 1..Len(reg) |->
     [sessionId |-> reg[i].sessionId,
      project |-> reg[i].project,
      source |-> reg[i].source,
      lastEventAt |-> toISOString(reg[i].lastEventAt),
      agentIds |-> reg[i].agentIds,
      pendingTaskIds |-> reg[i].pendingTaskIds]]

(***************************************************************************)
(* Log lines.  A line is its text class and, when the text is JSON, the    *)
(* record it parses to: type, userType and message.content.                *)
(*   content.kind: "absent" (no message or no content), "string", "array", *)
(*                 "object" (any other truthy value)                       *)
(*   a block: type, name (tool_use), id (tool_use id / tool_use_id),       *)
(*            is_error, text (text of a text block, content of a result),  *)
(*            input (of a tool_use)                                        *)
(*   a tool input: its fields, NULL / <<>> / -1 when the field is absent;  *)
(*            todos is the length of the todos array                       *)
(***************************************************************************)
NoInput ==
  [present |-> FALSE, file_path |-> <<>>, notebook_path |-> <<>>, target_file |-> <<>>,
   TargetFile |-> <<>>, AbsolutePath |-> <<>>, path |-> <<>>, description |-> NULL,
   pattern |-> NULL, subagent_type |-> NULL, type |-> NULL, todos |-> -1,
   command |-> NULL, CommandLine |-> NULL, query |-> NULL, url |-> NULL,
   content |-> NULL]
\* an input object with no field set
EmptyInput == [NoInput EXCEPT !.present = TRUE]

Block(type, name, id, isError, text, input) ==
  [type |-> type, name |-> name, id |-> id, is_error |-> isError, text |-> text,
   input |-> input]

Thinking == Block("thinking", NULL, NULL, FALSE, NULL, NoInput)
ThinkingWith(txt) == Block("thinking", NULL, NULL, FALSE, txt, NoInput)
Text(txt) == Block("text", NULL, NULL, FALSE, txt, NoInput)
ToolUse(name, id) == Block("tool_use", name, id, FALSE, NULL, NoInput)
ToolUseWith(name, id, input) == Block("tool_use", name, id, FALSE, NULL, input)
ToolResult(id, isError, txt) == Block("tool_result", NULL, id, isError, txt, NoInput)
\* an array element that is null, and one that is a string or a number
NullBlock == Block("<null>", NULL, NULL, FALSE, NULL, NoInput)
ScalarBlock == Block("<scalar>", NULL, NULL, FALSE, NULL, NoInput)

NoContent == [kind |-> "absent", text |-> NULL, blocks |-> <<>>]
ArrayContent(blocks) == [kind |-> "array", text |-> NULL, blocks |-> blocks]
StringContent(txt) == [kind |-> "string", text |-> txt, blocks |-> <<>>]
ObjectContent == [kind |-> "object", text |-> NULL, blocks |-> <<>>]

\* message.usage
NoUsage == [present |-> FALSE, input_tokens |-> 0, output_tokens |-> 0]

\* payload.arguments of a Codex function_call, a string holding JSON:
\*   kind "absent" (undefined or ""), "invalid" (not JSON), "null" (the JSON
\*   text null), "object" (a JSON object, whose fields are args)
NoArguments == [kind |-> "absent", args |-> NoInput]
InvalidArguments == [kind |-> "invalid", args |-> NoInput]
NullArguments == [kind |-> "null", args |-> NoInput]
Arguments(args) == [kind |-> "object", args |-> args]

\* payload of a Codex rollout line
NoPayload ==
  [present |-> FALSE, type |-> NULL, role |-> NULL, content |-> NoContent,
   name |-> NULL, call_id |-> NULL, id |-> NULL, arguments |-> NoArguments,
   output |-> NULL, status |-> NULL]
Payload(type) == [NoPayload EXCEPT !.present = TRUE, !.type = type]

\* a line of the given text class that carries no record
TextLine(class) ==
  [text |-> class, type |-> NULL, userType |-> NULL, content |-> NoContent,
   usage |-> NoUsage, payload |-> NoPayload]

JsonLine(type, userType, content) ==
  [TextLine("json") EXCEPT !.type = type, !.userType = userType, !.content = content]
CodexLine(type, payload) ==
  [TextLine("json") EXCEPT !.type = type, !.payload = payload]
\* "", "   " and text that is not JSON
EmptyLine == TextLine("empty")
BlankLine == TextLine("blank")
GarbageLine == TextLine("garbage")

SpawnLine(t) == JsonLine("assistant", NULL, ArrayContent(<<ToolUse("Task", t)>>))
ReadLine(t) == JsonLine("assistant", NULL, ArrayContent(<<ToolUse("Read", t)>>))
ResultLine(t, isError, txt) ==
  JsonLine("user", "tool_result", ArrayContent(<<ToolResult(t, isError, txt)>>))
ThinkingLine == JsonLine("assistant", NULL, ArrayContent(<<Thinking>>))
PromptLine == JsonLine("user", NULL, StringContent("words"))
SummaryLine == JsonLine("summary", NULL, NoContent)
SystemLine == JsonLine("system", NULL, NoContent)

\* String.prototype.includes('Error') on the texts the model uses
includesError(txt) == txt \in {"Error: failed", "Error: denied"}
\* String.prototype.trim() is non-empty
nonBlank(txt) == txt \notin {NULL, "", "   "}

(***************************************************************************)
(* parser.ts                                                               *)
(***************************************************************************)
NoRaw == [parsed |-> FALSE, type |-> NULL, userType |-> NULL, content |-> NoContent,
          usage |-> NoUsage, payload |-> NoPayload, sessionId |-> NULL, agentId |-> NULL]

parseJsonlLine(line, sid, agentId) ==
  IF line.text \in {"empty", "blank"} THEN NoRaw
  ELSE IF line.text = "garbage" THEN NoRaw
  ELSE [parsed |-> TRUE, type |-> line.type, userType |-> line.userType,
        content |-> line.content, usage |-> line.usage, payload |-> line.payload,
        sessionId |-> sid, agentId |-> agentId]

(***************************************************************************)
(* adapters/claude-code.ts                                                 *)
(***************************************************************************)
\* TOOL_TO_CATEGORY of config.ts with the ToolCategory.OTHER fallback
toolCategory(name) ==
  CASE name = "Read" -> "file_read"
    [] name \in {"Write", "Edit"} -> "file_write"
    [] name = "Bash" -> "terminal"
    [] name \in {"Grep", "Glob", "WebFetch", "WebSearch"} -> "search"
    [] name = "Task" -> "spawn_agent"
    [] name \in {"TodoWrite", "EnterPlanMode", "ExitPlanMode"} -> "plan"
    [] name = "AskUserQuestion" -> "communicate"
    [] name = "NotebookEdit" -> "notebook"
    [] OTHER -> "other"

\* the detail of TOOL_TO_CATEGORY, the tool name itself for an unknown tool
toolDetail(name) ==
  CASE name = "Read" -> "read"
    [] name = "Write" -> "write"
    [] name = "Edit" -> "edit"
    [] name = "Bash" -> "bash"
    [] name = "Grep" -> "grep"
    [] name = "Glob" -> "glob"
    [] name = "WebFetch" -> "web_fetch"
    [] name = "WebSearch" -> "web_search"
    [] name = "Task" -> "task"
    [] name = "TodoWrite" -> "todo"
    [] name = "EnterPlanMode" -> "enter_plan"
    [] name = "ExitPlanMode" -> "exit_plan"
    [] name = "AskUserQuestion" -> "ask_user"
    [] name = "NotebookEdit" -> "notebook"
    [] OTHER -> name

\* extractSafeContext that takes the command of a Bash call when it has no description
extractSafeContext_leakCommand(toolName, input) ==
  IF ~input.present THEN NULL
  ELSE CASE toolName \in {"Read", "Write", "Edit"} -> toBasename(input.file_path)
         [] toolName = "Bash" ->
              IF Falsy(input.description) THEN Opt(input.command) ELSE input.description
         [] toolName \in {"Grep", "Glob"} -> Opt(input.pattern)
         [] toolName = "Task" -> Opt(input.subagent_type)
         [] toolName = "TodoWrite" ->
              IF input.todos >= 0 THEN ToString(input.todos) \o " items" ELSE NULL
         [] toolName = "NotebookEdit" -> toBasename(input.notebook_path)
         [] OTHER -> NULL

extractSafeContext(toolName, input) ==
  IF ~input.present THEN NULL
  ELSE CASE toolName \in {"Read", "Write", "Edit"} -> toBasename(input.file_path)
         [] toolName = "Bash" -> Opt(input.description)
         [] toolName \in {"Grep", "Glob"} -> Opt(input.pattern)
         [] toolName = "Task" -> Opt(input.subagent_type)
         [] toolName = "TodoWrite" ->
              IF input.todos >= 0 THEN ToString(input.todos) \o " items" ELSE NULL
         [] toolName = "NotebookEdit" -> toBasename(input.notebook_path)
         [] OTHER -> NULL

buildToolStartedEvent(sid, agentId, block) ==
  createToolEvent(sid, agentId, toolCategory(block.name), toolDetail(block.name),
                  "started", block.id, extractSafeContext(block.name, block.input))

extractTokens(usage) ==
  IF ~usage.present THEN NoTokens
  ELSE [present |-> TRUE, input |-> usage.input_tokens, output |-> usage.output_tokens]

assistantBlock(sid, agentId, block, tokens) ==
  CASE block.type = "thinking" -> <<createActivityEvent(sid, agentId, "thinking", NoTokens)>>
    [] block.type = "text" ->
         IF block.text = "(no content)"
         THEN <<createActivityEvent(sid, agentId, "thinking", NoTokens)>>
         ELSE <<createActivityEvent(sid, agentId, "responding", tokens)>>
    [] block.type = "tool_use" ->
         <<buildToolStartedEvent(sid, agentId, block)>>
         \o (IF block.name = "Task"
             THEN <<createAgentEvent(sid, block.id, "spawned",
                      IF Falsy(block.input.subagent_type) THEN "general"
                      ELSE block.input.subagent_type)>>
             ELSE <<>>)
         \o (IF block.name = "AskUserQuestion"
             THEN <<createActivityEvent(sid, agentId, "waiting", NoTokens)>> ELSE <<>>)
    [] OTHER -> <<>>

resultBlock(sid, agentId, block) ==
  IF block.type = "tool_result"
  THEN LET isError == block.is_error \/ includesError(block.text)
       IN <<createToolEvent(sid, agentId, "other", NULL,
                            IF isError THEN "error" ELSE "completed", block.id, NULL)>>
          \o (IF isError THEN <<createErrorEvent(sid, agentId, "warning")>> ELSE <<>>)
  ELSE <<>>

RECURSIVE handleAssistantBlocks(_, _, _, _)
handleAssistantBlocks(sid, agentId, blocks, tokens) ==
  IF blocks = <<>> THEN <<>>
  ELSE assistantBlock(sid, agentId, Head(blocks), tokens)
       \o handleAssistantBlocks(sid, agentId, Tail(blocks), tokens)

RECURSIVE handleResultBlocks(_, _, _)
handleResultBlocks(sid, agentId, blocks) ==
  IF blocks = <<>> THEN <<>>
  ELSE resultBlock(sid, agentId, Head(blocks))
       \o handleResultBlocks(sid, agentId, Tail(blocks))

handleAssistant(raw) ==
  IF raw.content.kind # "array" THEN <<>>
  ELSE handleAssistantBlocks(raw.sessionId, raw.agentId, raw.content.blocks,
                             extractTokens(raw.usage))

\* handleAssistant reads block.type of every element: a null element is a TypeError
handleAssistantRaises(raw) ==
  /\ raw.content.kind = "array"
  /\ NullBlock \in Range(raw.content.blocks)

handleUser(raw) ==
  LET content == IF raw.content.kind = "string"
                 THEN <<Text(raw.content.text)>>
                 ELSE raw.content.blocks
  IN IF raw.content.kind = "absent" \/ (raw.content.kind = "string" /\ raw.content.text = "")
     THEN <<>>
     ELSE IF raw.userType = "tool_result"
     THEN handleResultBlocks(raw.sessionId, raw.agentId, content)
     ELSE IF \E i \in 1..Len(content) : content[i].type = "text" /\ nonBlank(content[i].text)
     THEN <<createActivityEvent(raw.sessionId, raw.agentId, "user_prompt", NoTokens)>>
     ELSE <<>>

\* handleUser iterates a content that is neither a string nor an array (not
\* iterable, no some()), and reads block.type of the elements it visits: all
\* of them for a tool_result record, those up to the first prompt text for
\* content.some(); both are TypeErrors
handleUserRaises(raw) ==
  \/ raw.content.kind = "object"
  \/ /\ raw.content.kind = "array"
     /\ \E i \in 1..Len(raw.content.blocks) :
          /\ raw.content.blocks[i] = NullBlock
          /\ raw.userType # "tool_result" =>
               \A j \in 1..(i - 1) :
                 ~(raw.content.blocks[j].type = "text" /\ nonBlank(raw.content.blocks[j].text))

claudeCodeAdapter(raw) ==
  CASE raw.type = "assistant" -> handleAssistant(raw)
    [] raw.type = "user" -> handleUser(raw)
    [] raw.type = "summary" -> <<createSummaryEvent(raw.sessionId)>>
    [] OTHER -> <<>>

claudeCodeAdapterRaises(raw) ==
  CASE raw.type = "assistant" -> handleAssistantRaises(raw)
    [] raw.type = "user" -> handleUserRaises(raw)
    [] OTHER -> FALSE

(***************************************************************************)
(* adapters/antigravity.ts                                                 *)
(***************************************************************************)
\* ANTIGRAVITY_TOOL_MAP with the ToolCategory.OTHER fallback
antigravityCategory(name) ==
  CASE name = "readFile" -> "file_read"
    [] name \in {"writeFile", "editFile"} -> "file_write"
    [] name = "runCommand" -> "terminal"
    [] name \in {"grepSearch", "globSearch", "findByName", "searchWeb", "readUrl"} -> "search"
    [] name = "spawnAgent" -> "spawn_agent"
    [] name = "listTasks" -> "plan"
    [] name = "askUser" -> "communicate"
    [] OTHER -> "other"

antigravityDetail(name) ==
  CASE name = "readFile" -> "read"
    [] name = "writeFile" -> "write"
    [] name = "editFile" -> "edit"
    [] name = "runCommand" -> "bash"
    [] name = "grepSearch" -> "grep"
    [] name = "globSearch" -> "glob"
    [] name = "findByName" -> "find"
    [] name = "searchWeb" -> "web_search"
    [] name = "readUrl" -> "web_fetch"
    [] name = "spawnAgent" -> "task"
    [] name = "listTasks" -> "todo"
    [] name = "askUser" -> "ask_user"
    [] OTHER -> name

\* a path value that is a non-empty string
TruthyPath(path) == path # <<>> /\ path # <<"">>

antigravityExtractSafeContext(toolName, input) ==
  IF ~input.present THEN NULL
  ELSE IF TruthyPath(input.file_path) THEN toBasename(input.file_path)
  ELSE IF TruthyPath(input.target_file) THEN toBasename(input.target_file)
  ELSE IF TruthyPath(input.TargetFile) THEN toBasename(input.TargetFile)
  ELSE IF TruthyPath(input.AbsolutePath) THEN toBasename(input.AbsolutePath)
  ELSE IF toolName \in {"runCommand", "Bash"}
  THEN IF ~Falsy(input.CommandLine) THEN input.CommandLine
       ELSE IF ~Falsy(input.command) THEN input.command
       ELSE "terminal"
  ELSE IF toolName \in {"searchWeb", "WebSearch"} THEN "web search"
  ELSE NULL

antigravityBuildToolStartedEvent(sid, agentId, block) ==
  createToolEvent(sid, agentId, antigravityCategory(block.name),
                  antigravityDetail(block.name), "started", block.id,
                  antigravityExtractSafeContext(block.name, block.input))

modelBlock(sid, agentId, block, tokens) ==
  CASE block.type = "thinking" -> <<createActivityEvent(sid, agentId, "thinking", NoTokens)>>
    [] block.type = "text" ->
         IF nonBlank(block.text)
         THEN <<createActivityEvent(sid, agentId, "responding", tokens)>>
         ELSE <<>>
    [] block.type = "tool_use" ->
         <<antigravityBuildToolStartedEvent(sid, agentId, block)>>
         \o (IF block.name \in {"spawnAgent", "Task"}
             THEN <<createAgentEvent(sid, block.id, "spawned",
                      IF Falsy(block.input.type) THEN "general" ELSE block.input.type)>>
             ELSE <<>>)
    [] OTHER -> <<>>

RECURSIVE handleModelBlocks(_, _, _, _)
handleModelBlocks(sid, agentId, blocks, tokens) ==
  IF blocks = <<>> THEN <<>>
  ELSE modelBlock(sid, agentId, Head(blocks), tokens)
       \o handleModelBlocks(sid, agentId, Tail(blocks), tokens)

handleModel(raw) ==
  IF raw.content.kind # "array" THEN <<>>
  ELSE handleModelBlocks(raw.sessionId, raw.agentId, raw.content.blocks,
                         extractTokens(raw.usage))

\* block.type of a null element is a TypeError
handleModelRaises(raw) ==
  /\ raw.content.kind = "array"
  /\ NullBlock \in Range(raw.content.blocks)

antigravityResultBlock(sid, agentId, block) ==
  IF block.type = "tool_result"
  THEN LET isError == block.is_error \/ includesError(block.text)
       IN <<createToolEvent(sid, agentId, "other", NULL,
                            IF isError THEN "error" ELSE "completed", block.id, NULL)>>
          \o (IF isError THEN <<createErrorEvent(sid, agentId, "warning")>> ELSE <<>>)
  ELSE <<>>

RECURSIVE antigravityResultBlocks(_, _, _)
antigravityResultBlocks(sid, agentId, blocks) ==
  IF blocks = <<>> THEN <<>>
  ELSE antigravityResultBlock(sid, agentId, Head(blocks))
       \o antigravityResultBlocks(sid, agentId, Tail(blocks))

antigravityHandleUser(raw) ==
  IF raw.content.kind = "absent" \/ (raw.content.kind = "string" /\ raw.content.text = "")
  THEN <<>>
  ELSE IF raw.userType = "tool_result"
  THEN antigravityResultBlocks(raw.sessionId, raw.agentId, raw.content.blocks)
  ELSE <<createActivityEvent(raw.sessionId, raw.agentId, "user_prompt", NoTokens)>>

antigravityHandleUserRaises(raw) ==
  /\ raw.userType = "tool_result"
  /\ raw.content.kind = "array"
  /\ NullBlock \in Range(raw.content.blocks)

antigravityAdapter(raw) ==
  CASE raw.type \in {"assistant", "model"} -> handleModel(raw)
    [] raw.type = "user" -> antigravityHandleUser(raw)
    [] raw.type = "summary" -> <<createSummaryEvent(raw.sessionId)>>
    [] OTHER -> <<>>

antigravityAdapterRaises(raw) ==
  CASE raw.type \in {"assistant", "model"} -> handleModelRaises(raw)
    [] raw.type = "user" -> antigravityHandleUserRaises(raw)
    [] OTHER -> FALSE

(***************************************************************************)
(* adapters/codex.ts                                                       *)
(***************************************************************************)
\* CODEX_TOOL_TO_CATEGORY with the ToolCategory.OTHER fallback
codexCategory(name) ==
  CASE name \in {"shell", "exec_command"} -> "terminal"
    [] name = "apply_patch" -> "file_write"
    [] name \in {"read_file", "view_image"} -> "file_read"
    [] name \in {"list_dir", "grep_files", "web_search"} -> "search"
    [] name \in {"plan", "update_plan"} -> "plan"
    [] name = "request_user_input" -> "communicate"
    [] name \in {"spawn_agent", "send_input", "wait", "close_agent"} -> "spawn_agent"
    [] OTHER -> "other"

codexDetail(name) ==
  CASE name \in {"shell", "exec_command"} -> "bash"
    [] name = "apply_patch" -> "patch"
    [] name = "read_file" -> "read"
    [] name = "list_dir" -> "list_dir"
    [] name = "grep_files" -> "grep"
    [] name = "view_image" -> "image"
    [] name = "get_memory" -> "memory"
    [] name \in {"plan", "update_plan"} -> "plan"
    [] name = "request_user_input" -> "ask_user"
    [] name \in {"spawn_agent", "send_input", "wait", "close_agent"} -> "collab"
    [] name = "web_search" -> "web_search"
    [] OTHER -> name

\* a || b || ... on strings
OrElse(a, b) == IF Falsy(a) THEN b ELSE a

codexExtractSafeContext(toolName, arguments) ==
  IF arguments.kind \in {"absent", "invalid"} THEN NULL
  ELSE CASE toolName \in {"read_file", "view_image"} ->
              OrElse(toBasename(arguments.args.path), toBasename(arguments.args.file_path))
         [] toolName = "grep_files" -> Opt(arguments.args.pattern)
         [] OTHER -> NULL

\* JSON.parse("null") is null, and args.path of null is a TypeError
codexExtractSafeContextRaises(toolName, arguments) ==
  /\ arguments.kind = "null"
  /\ toolName \in {"read_file", "view_image", "grep_files"}

handleMessage(payload, sid, agentId) ==
  IF payload.role = "user"
  THEN IF /\ payload.content.kind = "array"
          /\ \E i \in 1..Len(payload.content.blocks) :
               payload.content.blocks[i].type = "input_text"
       THEN <<createActivityEvent(sid, agentId, "user_prompt", NoTokens)>>
       ELSE <<>>
  ELSE IF payload.role = "assistant"
  THEN IF /\ payload.content.kind = "array"
          /\ \E i \in 1..Len(payload.content.blocks) :
               payload.content.blocks[i].type = "output_text"
       THEN <<createActivityEvent(sid, agentId, "responding", NoTokens)>>
       ELSE <<>>
  ELSE <<>>

handleFunctionCall(payload, sid, agentId) ==
  LET toolName == OrElse(payload.name, "unknown")
      callId == OrElse(payload.call_id, OrElse(payload.id, "unknown"))
  IN <<createToolEvent(sid, agentId, codexCategory(toolName), codexDetail(toolName),
                       "started", callId,
                       codexExtractSafeContext(toolName, payload.arguments))>>
     \o (IF toolName = "request_user_input"
         THEN <<createActivityEvent(sid, agentId, "waiting", NoTokens)>> ELSE <<>>)
     \o (IF toolName = "spawn_agent"
         THEN <<createAgentEvent(sid, callId, "spawned", "collab")>> ELSE <<>>)

handleFunctionCallOutput(payload, sid, agentId) ==
  LET callId == OrElse(payload.call_id, "unknown")
      isError == includesError(payload.output)
  IN <<createToolEvent(sid, agentId, "other", NULL,
                       IF isError THEN "error" ELSE "completed", callId, NULL)>>
     \o (IF isError THEN <<createErrorEvent(sid, agentId, "warning")>> ELSE <<>>)

handleLocalShellCall(payload, sid, agentId) ==
  LET id == OrElse(payload.call_id, OrElse(payload.id, "unknown"))
  IN IF payload.status \in {"completed", "failed"}
     THEN <<createToolEvent(sid, agentId, "terminal", "shell",
                            IF payload.status = "failed" THEN "error" ELSE "completed",
                            id, NULL)>>
          \o (IF payload.status = "failed"
              THEN <<createErrorEvent(sid, agentId, "warning")>> ELSE <<>>)
     ELSE <<createToolEvent(sid, agentId, "terminal", "shell", "started", id, NULL)>>

handleWebSearchCall(payload, sid, agentId) ==
  <<createToolEvent(sid, agentId, "search", "web_search",
                    IF payload.status = "completed" THEN "completed"
                    ELSE IF payload.status = "failed" THEN "error" ELSE "started",
                    OrElse(payload.id, "unknown"), NULL)>>

handleCustomToolCall(payload, sid, agentId) ==
  <<createToolEvent(sid, agentId, "other", OrElse(payload.name, "custom"), "started",
                    OrElse(payload.call_id, OrElse(payload.id, "unknown")), NULL)>>

handleCustomToolCallOutput(payload, sid, agentId) ==
  LET callId == OrElse(payload.call_id, "unknown")
      isError == includesError(payload.output)
  IN <<createToolEvent(sid, agentId, "other", NULL,
                       IF isError THEN "error" ELSE "completed", callId, NULL)>>
     \o (IF isError THEN <<createErrorEvent(sid, agentId, "warning")>> ELSE <<>>)

handleResponseItem(payload, sid, agentId) ==
  IF ~payload.present \/ Falsy(payload.type) THEN <<>>
  ELSE CASE payload.type = "message" -> handleMessage(payload, sid, agentId)
         [] payload.type = "reasoning" ->
              <<createActivityEvent(sid, agentId, "thinking", NoTokens)>>
         [] payload.type = "function_call" -> handleFunctionCall(payload, sid, agentId)
         [] payload.type = "function_call_output" ->
              handleFunctionCallOutput(payload, sid, agentId)
         [] payload.type = "local_shell_call" -> handleLocalShellCall(payload, sid, agentId)
         [] payload.type = "web_search_call" -> handleWebSearchCall(payload, sid, agentId)
         [] payload.type = "custom_tool_call" -> handleCustomToolCall(payload, sid, agentId)
         [] payload.type = "custom_tool_call_output" ->
              handleCustomToolCallOutput(payload, sid, agentId)
         [] OTHER -> <<>>

codexAdapter(raw) ==
  IF raw.type = "response_item"
  THEN handleResponseItem(raw.payload, raw.sessionId, raw.agentId)
  ELSE <<>>

codexAdapterRaises(raw) ==
  /\ raw.type = "response_item"
  /\ raw.payload.present
  /\ raw.payload.type = "function_call"
  /\ codexExtractSafeContextRaises(OrElse(raw.payload.name, "unknown"),
                                   raw.payload.arguments)

\* the three source adapters by name
Adapters == {"claude-code", "codex", "antigravity"}

adapt(adapter, raw) ==
  CASE adapter = "claude-code" -> claudeCodeAdapter(raw)
    [] adapter = "codex" -> codexAdapter(raw)
    [] adapter = "antigravity" -> antigravityAdapter(raw)

adaptRaises(adapter, raw) ==
  CASE adapter = "claude-code" -> claudeCodeAdapterRaises(raw)
    [] adapter = "codex" -> codexAdapterRaises(raw)
    [] adapter = "antigravity" -> antigravityAdapterRaises(raw)

\* transformToPixelEvents that falls back to the claude-code adapter for an
\* unknown source
transformToPixelEvents_fallback(raw, source) ==
  claudeCodeAdapter(raw)

\* the adapters table of parser.ts holds one entry, 'claude-code'
transformToPixelEvents(raw, source) ==
  IF source = "claude-code" THEN claudeCodeAdapter(raw) ELSE <<>>

\* transformToPixelEvents has no try/catch: what the adapter throws, it throws
transformRaises(raw, source) ==
  source = "claude-code" /\ claudeCodeAdapterRaises(raw)

(***************************************************************************)
(* index.ts: the bridge's watcher handlers                                 *)
(***************************************************************************)
\* the loop body broadcasting the tool event before the derived agent event
routeEvent_toolFirst(m, sid, event) ==
  LET m1 == IF event.type = "tool" /\ event.tool = "spawn_agent" /\ event.status = "started"
            THEN trackTaskSpawn(m, sid, event.toolUseId)
            ELSE m
      r == handleTaskResult(m1, sid, event.toolUseId)
      m2 == [m1 EXCEPT !.out = Append(@, event)]
  IN IF event.type = "tool" /\ event.status \in {"completed", "error"} /\ r.ret
     THEN agentCompleted(
            [r.m EXCEPT !.out = Append(Append(@, event),
               createAgentEvent(sid, event.toolUseId,
                  IF event.status = "error" THEN "error" ELSE "completed", NULL))],
            sid, event.toolUseId)
     ELSE m2

\* the loop body deriving the agent event without asking handleTaskResult
routeEvent_unguarded(m, sid, event) ==
  LET m1 == IF event.type = "tool" /\ event.tool = "spawn_agent" /\ event.status = "started"
            THEN trackTaskSpawn(m, sid, event.toolUseId)
            ELSE m
      r == handleTaskResult(m1, sid, event.toolUseId)
      m2 == IF event.type = "tool" /\ event.status \in {"completed", "error"}
            THEN agentCompleted(
                   [r.m EXCEPT !.out = Append(@,
                      createAgentEvent(sid, event.toolUseId,
                         IF event.status = "error" THEN "error" ELSE "completed",
                         NULL))],
                   sid, event.toolUseId)
            ELSE m1
  IN [m2 EXCEPT !.out = Append(@, event)]

\* one iteration of the for-of loop over the adapter's events
routeEvent(m, sid, event) ==
  LET m1 == IF event.type = "tool" /\ event.tool = "spawn_agent" /\ event.status = "started"
            THEN trackTaskSpawn(m, sid, event.toolUseId)
            ELSE m
      r == handleTaskResult(m1, sid, event.toolUseId)
      m2 == IF event.type = "tool" /\ event.status \in {"completed", "error"}
            THEN IF r.ret
                 THEN agentCompleted(
                        [r.m EXCEPT !.out = Append(@,
                           createAgentEvent(sid, event.toolUseId,
                              IF event.status = "error" THEN "error" ELSE "completed",
                              NULL))],
                        sid, event.toolUseId)
                 ELSE r.m
            ELSE m1
  IN [m2 EXCEPT !.out = Append(@, event)]

RECURSIVE routeEvents(_, _, _)
routeEvents(m, sid, events) ==
  IF events = <<>> THEN m
  ELSE routeEvents(routeEvent(m, sid, Head(events)), sid, Tail(events))

\* handleNewLine recording activity for lines of the main log file only
handleNewLine_mainOnly(m, line, sid, agentId, project, source, t) ==
  LET m1 == IF ~has(m.sessions, sid)
            THEN registerSession(m, sid, project, agentId, source, t)
            ELSE m
      resolvedAgentId == IF agentId # NULL
                         THEN resolveAgentId(m1.sessions, sid, agentId)
                         ELSE agentId
      raw == parseJsonlLine(line, sid, resolvedAgentId)
  IN IF ~raw.parsed THEN m1
     ELSE IF transformRaises(raw, source) THEN m1
     ELSE routeEvents(IF agentId = NULL THEN recordActivity(m1, sid, t) ELSE m1,
                      sid, transformToPixelEvents(raw, source))

\* handleNewLine without the registration of an unknown session
handleNewLine_noRegister(m, line, sid, agentId, project, source, t) ==
  LET m1 == m
      resolvedAgentId == IF agentId # NULL
                         THEN resolveAgentId(m1.sessions, sid, agentId)
                         ELSE agentId
      raw == parseJsonlLine(line, sid, resolvedAgentId)
  IN IF ~raw.parsed THEN m1
     ELSE IF transformRaises(raw, source) THEN m1
     ELSE routeEvents(recordActivity(m1, sid, t), sid, transformToPixelEvents(raw, source))

\* project is what watcher.parseFilePath(filePath) yields for the line's file;
\* an exception of the adapter leaves handleNewLine before recordActivity
handleNewLine(m, line, sid, agentId, project, source, t) ==
  LET m1 == IF ~has(m.sessions, sid)
            THEN registerSession(m, sid, project, agentId, source, t)
            ELSE m
      resolvedAgentId == IF agentId # NULL
                         THEN resolveAgentId(m1.sessions, sid, agentId)
                         ELSE agentId
      raw == parseJsonlLine(line, sid, resolvedAgentId)
  IN IF ~raw.parsed THEN m1
     ELSE IF transformRaises(raw, source) THEN m1
     ELSE routeEvents(recordActivity(m1, sid, t), sid, transformToPixelEvents(raw, source))

\* the watcher's 'session' handler
onSession(m, sid, agentId, project, source, t) ==
  LET m1 == registerSession(m, sid, project, agentId, source, t)
  IN IF agentId # NULL THEN correlateAgentFile(m1, sid, agentId) ELSE m1

(***************************************************************************)
(* Actions.  Commit installs what a handler leaves behind and keeps the    *)
(* history; its guard caps the number of registrations of a sessionId.     *)
(***************************************************************************)
NoLine == TextLine("none")

\* source is the source tag of a line or the adapter applied; raised tells
\* that the operation threw
Op(name, sid, agent, tool, line, ret) ==
  [op |-> name, sid |-> sid, agent |-> agent, tool |-> tool, line |-> line, ret |-> ret,
   source |-> NULL, raised |-> FALSE]

CountEvents(out, sid, action) ==
  Cardinality({i \in 1..Len(out) : /\ out[i].type = "session"
                                  /\ out[i].sessionId = sid
                                  /\ out[i].action = action})

M == [sessions |-> sessions, out |-> <<>>]

Commit(m, op) ==
  /\ \A sid \in SessionIds : startedCount[sid] + CountEvents(m.out, sid, "started") <= MaxStarts
  /\ sessions' = m.sessions
  /\ broadcast' = m.out
  /\ startedCount' = [sid \in SessionIds |->
                        startedCount[sid] + CountEvents(m.out, sid, "started")]
  /\ endedCount' = [sid \in SessionIds |->
                      endedCount[sid] + CountEvents(m.out, sid, "ended")]
  /\ lastOp' = op

RegisterSession(sid, project, agentId, source) ==
  /\ Commit(registerSession(M, sid, project, agentId, source, now),
            Op("registerSession", sid, agentId, NULL, NoLine, FALSE))
  /\ UNCHANGED <<reapTimer, timers, now>>

RecordActivity(sid) ==
  /\ Commit(recordActivity(M, sid, now),
            Op("recordActivity", sid, NULL, NULL, NoLine, FALSE))
  /\ UNCHANGED <<reapTimer, timers, now>>

RemoveSession(sid) ==
  /\ Commit(removeSession(M, sid),
            Op("removeSession", sid, NULL, NULL, NoLine, FALSE))
  /\ UNCHANGED <<reapTimer, timers, now>>

TrackTaskSpawn(sid, toolUseId) ==
  /\ Commit(trackTaskSpawn(M, sid, toolUseId),
            Op("trackTaskSpawn", sid, NULL, toolUseId, NoLine, FALSE))
  /\ UNCHANGED <<reapTimer, timers, now>>

HandleTaskResult(sid, toolUseId) ==
  /\ LET r == handleTaskResult(M, sid, toolUseId)
     IN Commit(r.m, Op("handleTaskResult", sid, NULL, toolUseId, NoLine, r.ret))
  /\ UNCHANGED <<reapTimer, timers, now>>

AgentCompleted(sid, agentId) ==
  /\ Commit(agentCompleted(M, sid, agentId),
            Op("agentCompleted", sid, agentId, NULL, NoLine, FALSE))
  /\ UNCHANGED <<reapTimer, timers, now>>

CorrelateAgentFile(sid, fileAgentId) ==
  /\ Commit(correlateAgentFile(M, sid, fileAgentId),
            Op("correlateAgentFile", sid, fileAgentId, NULL, NoLine, FALSE))
  /\ UNCHANGED <<reapTimer, timers, now>>

\* session.ts: stopReaper clears the interval held in _reapTimer, if any.  The
\* reaper is r = [field |-> _reapTimer is set, active |-> active timers]
stopReaper(r) ==
  IF r.field THEN [field |-> FALSE, active |-> r.active - 1] ELSE r

\* startReaper that installs a new interval without clearing the old one
startReaper_noStop(r) ==
  [field |-> TRUE, active |-> r.active + 1]

\* startReaper: stopReaper(), then setInterval
startReaper(r) ==
  [field |-> TRUE, active |-> stopReaper(r).active + 1]

Reaper == [field |-> reapTimer, active |-> timers]

StartReaper ==
  /\ reapTimer' = startReaper(Reaper).field
  /\ timers' = startReaper(Reaper).active
  /\ lastOp' = Op("startReaper", NULL, NULL, NULL, NoLine, FALSE)
  /\ broadcast' = <<>>
  /\ UNCHANGED <<sessions, now, startedCount, endedCount>>

StopReaper ==
  /\ reapTimer' = stopReaper(Reaper).field
  /\ timers' = stopReaper(Reaper).active
  /\ lastOp' = Op("stopReaper", NULL, NULL, NULL, NoLine, FALSE)
  /\ broadcast' = <<>>
  /\ UNCHANGED <<sessions, now, startedCount, endedCount>>

\* cleanup(): stopReaper(), then sessions.clear()
Cleanup ==
  /\ reapTimer' = stopReaper(Reaper).field
  /\ timers' = stopReaper(Reaper).active
  /\ sessions' = <<>>
  /\ lastOp' = Op("cleanup", NULL, NULL, NULL, NoLine, FALSE)
  /\ broadcast' = <<>>
  /\ UNCHANGED <<now, startedCount, endedCount>>

\* the interval callback installed by startReaper
ReapStaleSessions ==
  /\ timers > 0
  /\ Commit(_reapStaleSessions(M, now),
            Op("_reapStaleSessions", NULL, NULL, NULL, NoLine, FALSE))
  /\ UNCHANGED <<reapTimer, timers, now>>

\* time passes: one reaper interval
Tick ==
  /\ now < MaxTicks * sessionReapIntervalMs
  /\ now' = now + sessionReapIntervalMs
  /\ lastOp' = Op("tick", NULL, NULL, NULL, NoLine, FALSE)
  /\ broadcast' = <<>>
  /\ UNCHANGED <<sessions, reapTimer, timers, startedCount, endedCount>>

\* getState() reads the Map and emits nothing
GetState ==
  /\ Commit(M, Op("getState", NULL, NULL, NULL, NoLine, FALSE))
  /\ UNCHANGED <<reapTimer, timers, now>>

OnSession(sid, agentId, project, source) ==
  /\ Commit(onSession(M, sid, agentId, project, source, now),
            Op("onSession", sid, agentId, NULL, NoLine, FALSE))
  /\ UNCHANGED <<reapTimer, timers, now>>

HandleNewLine(line, sid, agentId, project, source) ==
  /\ Commit(handleNewLine(M, line, sid, agentId, project, source, now),
            [Op("handleNewLine", sid, agentId, NULL, line, FALSE) EXCEPT
               !.source = source,
               !.raised = LET raw == parseJsonlLine(line, sid, agentId)
                          IN raw.parsed /\ transformRaises(raw, source)])
  /\ UNCHANGED <<reapTimer, timers, now>>

\* the adapter lastOp.source applied to the record of the line lastOp.line
Adapt ==
  LET raw == parseJsonlLine(lastOp.line, lastOp.sid, lastOp.agent)
  IN /\ lastOp.op = "input"
     /\ raw.parsed
     /\ broadcast' = IF adaptRaises(lastOp.source, raw) THEN <<>>
                     ELSE adapt(lastOp.source, raw)
     /\ lastOp' = [lastOp EXCEPT !.op = "adapt",
                                 !.raised = adaptRaises(lastOp.source, raw)]
     /\ UNCHANGED <<sessions, reapTimer, timers, now, startedCount, endedCount>>

\* parser.ts: transformToPixelEvents applied to the drawn record under the
\* drawn source tag
Transform ==
  LET raw == parseJsonlLine(lastOp.line, lastOp.sid, lastOp.agent)
  IN /\ lastOp.op = "input"
     /\ raw.parsed
     /\ broadcast' = IF transformRaises(raw, lastOp.source) THEN <<>>
                     ELSE transformToPixelEvents(raw, lastOp.source)
     /\ lastOp' = [lastOp EXCEPT !.op = "transform",
                                 !.raised = transformRaises(raw, lastOp.source)]
     /\ UNCHANGED <<sessions, reapTimer, timers, now, startedCount, endedCount>>

(***************************************************************************)
(* watcher.ts: SessionWatcher                                              *)
(***************************************************************************)
\* a file path is the sequence of its parts below projectsDir, the last one
\* without its .jsonl suffix: the main log of session s1 and the log of its
\* sub-agent f1
MainFile == <<"-p1", "s1">>
SubFile == <<"-p1", "s1", "subagents", "f1">>
WatchedFiles == {MainFile, SubFile}

\* project.replace(/^-/, '/').replace(/-/g, '/') on the directory names used
projectPath(project) ==
  CASE project = "-p1" -> "/p1"
    [] project = "-p2" -> "/p2"
    [] OTHER -> project

parseFilePath(filePath) ==
  LET fileName == filePath[Len(filePath)]
      dirPath == SubSeq(filePath, 1, Len(filePath) - 1)
      isSubagent == "subagents" \in Range(dirPath)
      subagentsDir == SubSeq(dirPath, 1, Len(dirPath) - 1)
  IN IF isSubagent
     THEN [sessionId |-> subagentsDir[Len(subagentsDir)],
           agentId |-> fileName,
           project |-> projectPath(subagentsDir[Len(subagentsDir) - 1])]
     ELSE [sessionId |-> fileName,
           agentId |-> NULL,
           project |-> projectPath(dirPath[Len(dirPath)])]

\* emit('session', ...) and emit('line', ...); a line is named by its number
\* in the file
SessionSignal(filePath) ==
  [signal |-> "session", sessionId |-> parseFilePath(filePath).sessionId,
   agentId |-> parseFilePath(filePath).agentId, filePath |-> filePath, line |-> 0]

LineSignal(filePath, n) ==
  [signal |-> "line", sessionId |-> parseFilePath(filePath).sessionId,
   agentId |-> parseFilePath(filePath).agentId, filePath |-> filePath, line |-> n]

\* filePositions.get(filePath) || 0; -1 stands for a missing entry
positionOf(filePath) ==
  IF watcher.filePositions[filePath] < 0 THEN 0 ELSE watcher.filePositions[filePath]

\* the lines from..to of a file as 'line' signals, in file order
RECURSIVE lineSignals(_, _, _)
lineSignals(filePath, from, to) ==
  IF from > to THEN <<>>
  ELSE <<LineSignal(filePath, from)>> \o lineSignals(filePath, from + 1, to)

InitWatcher ==
  /\ files = [f \in WatchedFiles |-> [size |-> 0, added |-> FALSE]]
  /\ watcher = [filePositions |-> [f \in WatchedFiles |-> -1], trackedSessions |-> {}]
  /\ inflight = <<>>
  /\ emitted = <<>>

\* the agent tool appends one non-empty line to a log file
AppendLine(filePath) ==
  /\ files[filePath].size < MaxLines
  /\ files' = [files EXCEPT ![filePath].size = @ + 1]
  /\ UNCHANGED <<watcher, inflight, emitted>>

\* chokidar reports a file once with 'add'; recent: its mtime is within the
\* recency threshold
HandleFileAdd(filePath, recent) ==
  /\ ~files[filePath].added
  /\ files' = [files EXCEPT ![filePath].added = TRUE]
  /\ IF recent
     THEN /\ watcher' = [filePositions |->
                           [watcher.filePositions EXCEPT ![filePath] = files[filePath].size],
                         trackedSessions |->
                           watcher.trackedSessions \cup {parseFilePath(filePath).sessionId}]
          /\ emitted' = Append(emitted, SessionSignal(filePath))
     ELSE /\ watcher' = [watcher EXCEPT !.filePositions[filePath] = files[filePath].size]
          /\ UNCHANGED emitted
  /\ UNCHANGED inflight

\* handleFileChange up to its await: the position and the size are read, the
\* session is discovered if it is not tracked, and the read is started
HandleFileChangeStart(filePath) ==
  LET previousPosition == positionOf(filePath)
      currentSize == files[filePath].size
      sessionId == parseFilePath(filePath).sessionId
  IN /\ files[filePath].added
     /\ Len(inflight) < MaxInflight
     /\ currentSize > previousPosition
     /\ IF sessionId \notin watcher.trackedSessions
        THEN /\ watcher' = [watcher EXCEPT !.trackedSessions = @ \cup {sessionId}]
             /\ emitted' = Append(emitted, SessionSignal(filePath))
        ELSE UNCHANGED <<watcher, emitted>>
     /\ inflight' = Append(inflight, [filePath |-> filePath,
                                      previousPosition |-> previousPosition,
                                      currentSize |-> currentSize])
     /\ UNCHANGED files

\* handleFileChange after its await: readNewLines has read from
\* previousPosition to the end of the file as it is when the stream closes;
\* the position becomes the size read before the await, and the lines are
\* emitted
HandleFileChangeFinish(i) ==
  LET h == inflight[i]
      newLines == lineSignals(h.filePath, h.previousPosition + 1, files[h.filePath].size)
  IN /\ Len(emitted) + Len(newLines) <= MaxEmitted
     /\ watcher' = [watcher EXCEPT !.filePositions[h.filePath] = h.currentSize]
     /\ emitted' = emitted \o newLines
     /\ inflight' = SubSeq(inflight, 1, i - 1) \o SubSeq(inflight, i + 1, Len(inflight))
     /\ UNCHANGED files

(***************************************************************************)
(* session.ts: AuthManager                                                 *)
(***************************************************************************)
\* the pairing codes generatePairingCode may draw, and the tokens randomBytes
\* yields, one after the other and all distinct
PairingCodes == {"000001", "000002"}
TokenIds == {"k" \o ToString(i) : i \in 1..MaxTokens}
DeviceNames == {"phone", "Unknown device"}

\* tokens: Map<string, TokenEntry> kept as its entries in insertion order
tokensHas(tokens, token) == \E i \in 1..Len(tokens) : tokens[i].token = token
tokensSet(tokens, entry) ==
  IF tokensHas(tokens, entry.token)
  THEN [tokens EXCEPT ![CHOOSE i \in 1..Len(tokens) : tokens[i].token = entry.token] = entry]
  ELSE Append(tokens, entry)
tokensDelete(tokens, token) == SelectSeq(tokens, LAMBDA e : e.token # token)

\* the token file: absent, or the JSON array of the entries
NoFile == [exists |-> FALSE, data |-> <<>>]

\* saveTokens: the values of the map, in order, written as a JSON array
saveTokens(tokens) == [exists |-> TRUE, data |-> tokens]

\* loadTokens: every entry of the file's array with a truthy token is set
RECURSIVE loadEntries(_, _)
loadEntries(tokens, data) ==
  IF data = <<>> THEN tokens
  ELSE loadEntries(IF Falsy(Head(data).token) THEN tokens ELSE tokensSet(tokens, Head(data)),
                   Tail(data))

loadTokens(tokens, file) ==
  IF file.exists THEN loadEntries(tokens, file.data) ELSE tokens

\* new AuthManager(tokenFilePath) with the pairing code drawn
newAuthManager(code, file) ==
  [pairingCode |-> code, tokens |-> loadTokens(<<>>, file)]

\* validatePairingCode(code, deviceName), token being the random token drawn;
\* a = [auth |-> the manager, file |-> the token file]
validatePairingCode(a, code, deviceName, token) ==
  IF code # a.auth.pairingCode
  THEN [auth |-> a.auth, file |-> a.file, ret |-> NULL]
  ELSE LET tokens == tokensSet(a.auth.tokens, [token |-> token, deviceName |-> deviceName])
       IN [auth |-> [a.auth EXCEPT !.tokens = tokens],
           file |-> saveTokens(tokens),
           ret |-> token]

validateToken(a, token) == tokensHas(a.auth.tokens, token)

\* revokeToken that deletes the token from the map and leaves the file alone
revokeToken_noSave(a, token) ==
  [auth |-> [a.auth EXCEPT !.tokens = tokensDelete(a.auth.tokens, token)],
   file |-> a.file,
   ret |-> tokensHas(a.auth.tokens, token)]

revokeToken(a, token) ==
  LET existed == tokensHas(a.auth.tokens, token)
      tokens == tokensDelete(a.auth.tokens, token)
  IN [auth |-> [a.auth EXCEPT !.tokens = tokens],
      file |-> IF existed THEN saveTokens(tokens) ELSE a.file,
      ret |-> existed]

A == [auth |-> auth, file |-> tokenFile]

NoAuthOp == [op |-> "init", conn |-> NULL, code |-> NULL, token |-> NULL, ret |-> NULL]
AuthOp(op, conn, code, token, ret) ==
  [op |-> op, conn |-> conn, code |-> code, token |-> token, ret |-> ret]

\* the token randomBytes yields next
NextToken == "k" \o ToString(authHist.next)

ValidatePairingCode(code, deviceName) ==
  LET r == validatePairingCode(A, code, deviceName, NextToken)
  IN /\ authHist.next <= MaxTokens
     /\ auth' = r.auth
     /\ tokenFile' = r.file
     /\ authHist' = [authHist EXCEPT
                       !.issued = IF r.ret = NULL THEN @ ELSE @ \cup {r.ret},
                       !.next = IF r.ret = NULL THEN @ ELSE @ + 1,
                       !.codeUsed = @ \/ r.ret # NULL,
                       !.last = AuthOp("validatePairingCode", NULL, code, NULL, r.ret)]
     /\ UNCHANGED <<server, sockets, sent>>

ValidateToken(token) ==
  /\ authHist' = [authHist EXCEPT
                    !.last = AuthOp("validateToken", NULL, NULL, token, validateToken(A, token))]
  /\ UNCHANGED <<server, sockets, sent, auth, tokenFile>>

RevokeToken(token) ==
  LET r == revokeToken(A, token)
  IN /\ auth' = r.auth
     /\ tokenFile' = r.file
     /\ authHist' = [authHist EXCEPT
                       !.revoked = IF r.ret THEN @ \cup {token} ELSE @,
                       !.last = AuthOp("revokeToken", NULL, NULL, token, r.ret)]
     /\ UNCHANGED <<server, sockets, sent>>

\* the bridge restarts: a new AuthManager on the same token file
Restart(code) ==
  /\ authHist.restarts < MaxRestarts
  /\ auth' = newAuthManager(code, tokenFile)
  /\ authHist' = [authHist EXCEPT !.codeUsed = FALSE, !.restarts = @ + 1,
                                  !.last = AuthOp("restart", NULL, code, NULL, NULL)]
  /\ UNCHANGED <<server, sockets, sent, tokenFile>>

(***************************************************************************)
(* websocket.ts: BroadcastServer                                           *)
(***************************************************************************)
\* the WebSocket objects; readyState "NONE" stands for a socket that has not
\* connected yet
Conns == {"c1", "c2"}

\* client messages: JSON text that parses to a ClientMessage, and text that
\* does not parse
Msg(type, token, pairingCode) ==
  [type |-> type, token |-> token, pairingCode |-> pairingCode, deviceName |-> "phone"]

ClientMessages ==
  {Msg(type, NULL, NULL) : type \in {"ping", "get_state", "subscribe", "bogus", "<invalid>"}}
  \cup {Msg("auth", token, code) :
          token \in {NULL, "k1", "k2"}, code \in {NULL} \cup PairingCodes}

\* sendTo(ws, message): sent only while the socket is OPEN
sendTo(snt, ws, type) ==
  IF sockets[ws] = "OPEN" THEN [snt EXCEPT ![ws] = Append(@, type)] ELSE snt

\* handleAuth(ws, message), token being the random token a pairing would draw:
\* whether ws is authenticated, the reply, and the AuthManager afterwards
handleAuth(a, message, token) ==
  IF ~Falsy(message.token)
  THEN IF validateToken(a, message.token)
       THEN [ok |-> TRUE, reply |-> "auth_success", auth |-> a.auth, file |-> a.file,
             issued |-> NULL]
       ELSE [ok |-> FALSE, reply |-> "auth_failed", auth |-> a.auth, file |-> a.file,
             issued |-> NULL]
  ELSE IF ~Falsy(message.pairingCode)
  THEN LET r == validatePairingCode(a, message.pairingCode, message.deviceName, token)
       IN IF r.ret # NULL
          THEN [ok |-> TRUE, reply |-> "auth_success", auth |-> r.auth, file |-> r.file,
                issued |-> r.ret]
          ELSE [ok |-> FALSE, reply |-> "auth_failed", auth |-> r.auth, file |-> r.file,
                issued |-> NULL]
  ELSE [ok |-> FALSE, reply |-> "auth_failed", auth |-> a.auth, file |-> a.file,
        issued |-> NULL]

\* broadcast that sends to every connected client
broadcastTargets_allClients ==
  {c \in server.clients : sockets[c] = "OPEN"}

\* the clients broadcast(event) sends to
broadcastTargets ==
  {c \in server.authenticatedClients : sockets[c] = "OPEN"}

\* wss.on('connection'): handleConnection(ws, req)
HandleConnection(ws) ==
  /\ sockets[ws] = "NONE"
  /\ sockets' = [sockets EXCEPT ![ws] = "OPEN"]
  /\ server' = [server EXCEPT !.clients = @ \cup {ws}]
  /\ sent' = [sent EXCEPT ![ws] = Append(@, "welcome")]
  /\ authHist' = [authHist EXCEPT !.last = AuthOp("connection", ws, NULL, NULL, NULL)]
  /\ UNCHANGED <<auth, tokenFile>>

\* the client presented a token that was issued and not revoked, or the
\* current pairing code
ValidCredentials(message) ==
  /\ message.type = "auth"
  /\ \/ message.token \in (authHist.issued \ authHist.revoked)
     \/ message.pairingCode = auth.pairingCode

\* ws.on('message'): handleMessage(ws, data)
HandleMessage(ws, message) ==
  LET r == handleAuth(A, message, NextToken)
      authenticated == ws \in server.authenticatedClients
      last == AuthOp("message", ws, NULL, NULL, NULL)
      proved == IF ValidCredentials(message) THEN authHist.proved \cup {ws}
                ELSE authHist.proved
  IN /\ sockets[ws] \in {"OPEN", "CLOSING"}
     /\ Len(sent[ws]) < MaxSent
     /\ authHist.next <= MaxTokens
     /\ IF message.type = "<invalid>"
        THEN /\ authHist' = [authHist EXCEPT !.last = last]
             /\ UNCHANGED <<server, sent, auth, tokenFile>>
        ELSE IF ~authenticated /\ message.type = "auth"
        THEN /\ server' = IF r.ok THEN [server EXCEPT !.authenticatedClients = @ \cup {ws}]
                          ELSE server
             /\ sent' = sendTo(sent, ws, r.reply)
             /\ auth' = r.auth
             /\ tokenFile' = r.file
             /\ authHist' = [authHist EXCEPT
                               !.issued = IF r.issued = NULL THEN @ ELSE @ \cup {r.issued},
                               !.next = IF r.issued = NULL THEN @ ELSE @ + 1,
                               !.codeUsed = @ \/ r.issued # NULL,
                               !.proved = proved,
                               !.tokenOf = IF r.ok
                                           THEN [@ EXCEPT ![ws] =
                                                   IF ~Falsy(message.token)
                                                   THEN message.token ELSE r.issued]
                                           ELSE @,
                               !.last = last]
        ELSE /\ sent' = CASE message.type = "ping" -> sendTo(sent, ws, "pong")
                          [] ~authenticated -> sendTo(sent, ws, "auth_failed")
                          [] message.type = "get_state" -> sendTo(sent, ws, "state")
                          [] OTHER -> sent
             /\ authHist' = [authHist EXCEPT !.proved = proved, !.last = last]
             /\ UNCHANGED <<server, auth, tokenFile>>
     /\ UNCHANGED sockets

\* the peer or the network starts closing the socket; no handler has run yet
BeginClose(ws) ==
  /\ sockets[ws] = "OPEN"
  /\ sockets' = [sockets EXCEPT ![ws] = "CLOSING"]
  /\ authHist' = [authHist EXCEPT !.last = AuthOp("closing", ws, NULL, NULL, NULL)]
  /\ UNCHANGED <<server, sent, auth, tokenFile>>

\* ws.on('close')
SocketClose(ws) ==
  /\ sockets[ws] \in {"OPEN", "CLOSING"}
  /\ sockets' = [sockets EXCEPT ![ws] = "CLOSED"]
  /\ server' = [clients |-> server.clients \ {ws},
                authenticatedClients |-> server.authenticatedClients \ {ws}]
  /\ authHist' = [authHist EXCEPT !.last = AuthOp("close", ws, NULL, NULL, NULL)]
  /\ UNCHANGED <<sent, auth, tokenFile>>

\* ws.on('error'): the socket is already CLOSING when 'error' is emitted
SocketError(ws) ==
  /\ sockets[ws] = "OPEN"
  /\ sockets' = [sockets EXCEPT ![ws] = "CLOSING"]
  /\ server' = [clients |-> server.clients \ {ws},
                authenticatedClients |-> server.authenticatedClients \ {ws}]
  /\ authHist' = [authHist EXCEPT !.last = AuthOp("error", ws, NULL, NULL, NULL)]
  /\ UNCHANGED <<sent, auth, tokenFile>>

\* broadcast(event)
ServerBroadcast ==
  /\ \A c \in broadcastTargets : Len(sent[c]) < MaxSent
  /\ sent' = [c \in Conns |-> IF c \in broadcastTargets THEN Append(sent[c], "event")
                               ELSE sent[c]]
  /\ authHist' = [authHist EXCEPT !.last = AuthOp("broadcast", NULL, NULL, NULL, NULL)]
  /\ UNCHANGED <<server, sockets, auth, tokenFile>>

InitServer ==
  /\ server = [clients |-> {}, authenticatedClients |-> {}]
  /\ sockets = [c \in Conns |-> "NONE"]
  /\ sent = [c \in Conns |-> <<>>]
  /\ auth = newAuthManager("000001", NoFile)
  /\ tokenFile = NoFile
  /\ authHist = [issued |-> {}, revoked |-> {}, next |-> 1, codeUsed |-> FALSE,
                 restarts |-> 0, proved |-> {}, tokenOf |-> [c \in Conns |-> NULL],
                 last |-> NoAuthOp]

(***************************************************************************)
(* Specifications                                                          *)
(***************************************************************************)
NoOp == Op("init", NULL, NULL, NULL, NoLine, FALSE)

\* nothing broadcast yet
NoAgentLog ==
  [carried |-> [f \in AgentFileIds |-> {}],
   spawned |-> [t \in ToolUseIds |-> 0],
   ended |-> [t \in ToolUseIds |-> 0],
   preceded |-> TRUE,
   open |-> {}]

Init ==
  /\ sessions = <<>>
  /\ reapTimer = FALSE
  /\ now = 0
  /\ broadcast = <<>>
  /\ startedCount = [sid \in SessionIds |-> 0]
  /\ endedCount = [sid \in SessionIds |-> 0]
  /\ lastOp = NoOp
  /\ spawnOrder = <<>>
  /\ fileOrder = <<>>
  /\ agentLog = NoAgentLog
  /\ timers = 0
  /\ InitWatcher
  /\ InitServer

\* the cap on pendingSpawnQueue
QueueBounded ==
  \A i \in 1..Len(sessions) : Len(sessions[i].pendingSpawnQueue) <= MaxQueue

\* Spec: the SessionManager's public methods called on one session
Next ==
  \/ \E p \in Projects, a \in AgentFileIds \cup {NULL} :
       RegisterSession("s1", p, a, "claude-code") /\ UNCHANGED ovars
  \/ RecordActivity("s1") /\ UNCHANGED ovars
  \/ RemoveSession("s1") /\ UNCHANGED ovars
  \/ \E t \in ToolUseIds : TrackTaskSpawn("s1", t) /\ QueueBounded' /\ UNCHANGED ovars
  \/ \E t \in ToolUseIds : HandleTaskResult("s1", t) /\ UNCHANGED ovars
  \/ \E a \in ToolUseIds \cup AgentFileIds : AgentCompleted("s1", a) /\ UNCHANGED ovars
  \/ \E f \in AgentFileIds : CorrelateAgentFile("s1", f) /\ UNCHANGED ovars

Spec == Init /\ [][Next]_vars

\* SpecPipe: the bridge's handlers on one session with sub-agent files; the
\* session is removed through removeSession, the reaper's path
Lines ==
  {GarbageLine, ThinkingLine}
  \cup {SpawnLine(t) : t \in ToolUseIds}
  \cup {ResultLine(t, FALSE, "ok") : t \in ToolUseIds}
  \cup {ResultLine(t, TRUE, "Error: failed") : t \in ToolUseIds}
  \cup {ResultLine(t, FALSE, "Error: failed") : t \in ToolUseIds}

NextPipe ==
  \/ \E a \in AgentFileIds \cup {NULL} :
       OnSession("s1", a, "p1", "claude-code") /\ UNCHANGED ovars
  \/ \E line \in Lines, a \in AgentFileIds \cup {NULL} :
       HandleNewLine(line, "s1", a, "p1", "claude-code") /\ QueueBounded' /\ UNCHANGED ovars
  \/ RemoveSession("s1") /\ UNCHANGED ovars

SpecPipe == Init /\ [][NextPipe]_vars

\* SpecReap: session lifecycle and the TTL reaper on two sessions
ReapLines == {GarbageLine, ThinkingLine}

NextReap ==
  \/ \E sid \in SessionIds, p \in Projects :
       RegisterSession(sid, p, NULL, "claude-code") /\ UNCHANGED ovars
  \/ \E sid \in SessionIds : RecordActivity(sid) /\ UNCHANGED ovars
  \/ \E sid \in SessionIds : RemoveSession(sid) /\ UNCHANGED ovars
  \/ StartReaper /\ UNCHANGED ovars
  \/ StopReaper /\ UNCHANGED ovars
  \/ ReapStaleSessions /\ UNCHANGED ovars
  \/ Tick /\ UNCHANGED ovars
  \/ \E sid \in SessionIds : OnSession(sid, NULL, "p1", "claude-code") /\ UNCHANGED ovars
  \/ \E line \in ReapLines, sid \in SessionIds :
       HandleNewLine(line, sid, NULL, "p1", "claude-code") /\ UNCHANGED ovars

SpecReap == Init /\ [][NextReap]_vars

\* SpecState: two sessions with correlation state, and the getState() query
NextState ==
  \/ \E sid \in SessionIds, a \in {NULL, "f1"} :
       RegisterSession(sid, "p1", a, "claude-code") /\ UNCHANGED ovars
  \/ \E sid \in SessionIds : TrackTaskSpawn(sid, "t1") /\ QueueBounded' /\ UNCHANGED ovars
  \/ \E sid \in SessionIds : CorrelateAgentFile(sid, "f1") /\ UNCHANGED ovars
  \/ \E sid \in SessionIds : RemoveSession(sid) /\ UNCHANGED ovars
  \/ GetState /\ UNCHANGED ovars

SpecState == Init /\ [][NextState]_vars

\* SpecTime: the bridge's handlers on one session while the clock advances
TimeLines ==
  {GarbageLine, ThinkingLine, SystemLine, SpawnLine("t1"), ResultLine("t1", FALSE, "ok")}

NextTime ==
  \/ Tick /\ UNCHANGED ovars
  \/ \E a \in {NULL, "f1"} : OnSession("s1", a, "p1", "claude-code") /\ UNCHANGED ovars
  \/ \E line \in TimeLines, a \in {NULL, "f1"} :
       HandleNewLine(line, "s1", a, "p1", "claude-code") /\ QueueBounded' /\ UNCHANGED ovars
  \/ RecordActivity("s1") /\ UNCHANGED ovars
  \/ RemoveSession("s1") /\ UNCHANGED ovars

SpecTime == Init /\ [][NextTime]_vars

\* SpecAdapt: every adapter applied to records of every shape
\* two free-form texts and two tool outputs that report an error
FreeTexts == {"alpha", "beta"}
ErrorTexts == {"Error: failed", "Error: denied"}

\* tool inputs: absent, empty, every field set, and the fields of a command
\* and of a web request alone
FullInput(txt) ==
  [present |-> TRUE, file_path |-> <<"", "home", "u", "notes.txt">>,
   notebook_path |-> <<"", "nb", "a.ipynb">>, target_file |-> <<>>, TargetFile |-> <<>>,
   AbsolutePath |-> <<>>, path |-> <<"", "srv", "img.png">>, description |-> "run tests",
   pattern |-> "TODO", subagent_type |-> "explore", type |-> "explore", todos |-> 2,
   command |-> txt, CommandLine |-> txt, query |-> txt, url |-> txt, content |-> txt]

AdaptToolInputs ==
  {NoInput, EmptyInput}
  \cup {FullInput(txt) : txt \in FreeTexts}
  \cup {[FullInput(txt) EXCEPT !.description = "build", !.pattern = "FIXME",
                               !.file_path = <<"", "tmp", "b.txt">>, !.todos = 3,
                               !.subagent_type = "plan",
                               !.notebook_path = <<"c.ipynb">>] : txt \in FreeTexts}
  \cup {[EmptyInput EXCEPT !.CommandLine = txt] : txt \in FreeTexts}
  \cup {[EmptyInput EXCEPT !.command = txt] : txt \in FreeTexts}
  \cup {[EmptyInput EXCEPT !.command = txt, !.description = "run tests"] : txt \in FreeTexts}
  \cup {[EmptyInput EXCEPT !.query = txt, !.url = txt] : txt \in FreeTexts}

AdaptToolNames ==
  {"Read", "Write", "Edit", "Bash", "Grep", "Glob", "Task", "TodoWrite", "NotebookEdit",
   "WebFetch", "WebSearch", "AskUserQuestion", "Mystery",
   "runCommand", "searchWeb", "readFile", "spawnAgent"}

CodexToolNames == {"shell", "read_file", "grep_files", "spawn_agent", "mystery"}

MessageInputs ==
  {JsonLine(type, NULL, ArrayContent(<<block>>)) :
     type \in {"assistant", "model"},
     block \in {ThinkingWith(txt) : txt \in FreeTexts}
               \cup {Text(txt) : txt \in FreeTexts \cup {"(no content)"}}
               \cup {ToolUseWith(name, "t1", input) :
                       name \in AdaptToolNames, input \in AdaptToolInputs}}
  \cup {JsonLine("user", NULL, StringContent(txt)) : txt \in FreeTexts}
  \cup {JsonLine("user", NULL, ArrayContent(<<Text(txt)>>)) : txt \in FreeTexts}
  \cup {ResultLine("t1", isError, txt) :
          isError \in BOOLEAN, txt \in FreeTexts \cup ErrorTexts}
  \cup {SummaryLine, SystemLine}

CodexInputs ==
  {CodexLine("response_item",
             [Payload("function_call") EXCEPT !.name = name, !.call_id = "t1",
                                              !.arguments = arguments]) :
     name \in CodexToolNames,
     arguments \in {NoArguments, InvalidArguments}
                   \cup {Arguments(input) : input \in AdaptToolInputs \ {NoInput}}}
  \cup {CodexLine("response_item",
                  [Payload(type) EXCEPT !.call_id = "t1", !.output = txt]) :
          type \in {"function_call_output", "custom_tool_call_output"},
          txt \in FreeTexts \cup ErrorTexts}
  \cup {CodexLine("response_item",
                  [Payload(type) EXCEPT !.id = "t1", !.status = status]) :
          type \in {"local_shell_call", "web_search_call"},
          status \in {NULL, "completed", "failed"}}
  \cup {CodexLine("response_item",
                  [Payload("message") EXCEPT !.role = role,
                     !.content = ArrayContent(<<Block(type, NULL, NULL, FALSE, txt, NoInput)>>)]) :
          role \in {"user", "assistant"}, type \in {"input_text", "output_text"},
          txt \in FreeTexts}
  \cup {CodexLine("response_item", Payload("reasoning")),
        CodexLine("response_item", [Payload("custom_tool_call") EXCEPT !.name = "mystery"]),
        CodexLine("session_meta", Payload(NULL))}

\* structurally incomplete records
IncompleteInputs ==
  {JsonLine(type, userType, content) :
     type \in {NULL, "assistant", "model", "user", "progress"},
     userType \in {NULL, "tool_result"},
     content \in {NoContent, StringContent(""), StringContent("alpha"), ObjectContent,
                  ArrayContent(<<>>), ArrayContent(<<NullBlock>>),
                  ArrayContent(<<ScalarBlock>>),
                  ArrayContent(<<Text("alpha"), NullBlock>>),
                  ArrayContent(<<ToolUse(NULL, NULL)>>),
                  ArrayContent(<<ToolResult(NULL, FALSE, NULL)>>)}}
  \cup {CodexLine("response_item", payload) :
          payload \in {NoPayload, Payload(NULL), Payload("function_call"),
                       Payload("function_call_output"), Payload("message"),
                       Payload("local_shell_call"), Payload("web_search_call"),
                       Payload("custom_tool_call"), Payload("custom_tool_call_output"),
                       Payload("ghost_snapshot"),
                       [Payload("message") EXCEPT !.role = "user",
                                                  !.content = ArrayContent(<<NullBlock>>)],
                       [Payload("function_call") EXCEPT !.name = "read_file",
                                                        !.arguments = NullArguments]}}

AdaptInputs == MessageInputs \cup CodexInputs \cup IncompleteInputs

\* the input is drawn at the start: an adapter, a line and the agentId of
\* the line's file
InitAdapt ==
  /\ sessions = <<>>
  /\ reapTimer = FALSE
  /\ now = 0
  /\ broadcast = <<>>
  /\ startedCount = [sid \in SessionIds |-> 0]
  /\ endedCount = [sid \in SessionIds |-> 0]
  /\ lastOp \in {[Op("input", "s1", a, NULL, line, FALSE) EXCEPT !.source = adapter] :
                   adapter \in Adapters, line \in AdaptInputs, a \in {NULL, "f1"}}
  /\ spawnOrder = <<>>
  /\ fileOrder = <<>>
  /\ agentLog = NoAgentLog
  /\ timers = 0
  /\ InitWatcher
  /\ InitServer

NextAdapt ==
  \/ Adapt /\ UNCHANGED ovars
  \/ Transform /\ UNCHANGED ovars

SpecAdapt == InitAdapt /\ [][NextAdapt]_vars

\* SpecDrop: lines of every text class, with and without an adapter for
\* their source, on one session
DropLines ==
  {EmptyLine, BlankLine, GarbageLine, ThinkingLine, SpawnLine("t1"),
   ResultLine("t1", FALSE, "ok")}

NextDrop ==
  \/ \E a \in {NULL, "f1"} : OnSession("s1", a, "p1", "claude-code") /\ UNCHANGED ovars
  \/ \E line \in DropLines, a \in {NULL, "f1"}, source \in Sources :
       HandleNewLine(line, "s1", a, "p1", source) /\ QueueBounded' /\ UNCHANGED ovars
  \/ RemoveSession("s1") /\ UNCHANGED ovars

SpecDrop == Init /\ [][NextDrop]_vars

\* SpecCorr: one live session, trackTaskSpawn calls with distinct toolUseIds
\* and correlateAgentFile calls with distinct file ids, in any interleaving
CorrToolIds == {"t" \o ToString(i) : i \in 1..MaxCorr}
CorrFileIds == {"f" \o ToString(i) : i \in 1..MaxCorr}

CorrRegister ==
  /\ RegisterSession("s1", "p1", NULL, "claude-code")
  /\ UNCHANGED ovars

CorrSpawn(t) ==
  /\ has(sessions, "s1")
  /\ t \notin Range(spawnOrder)
  /\ TrackTaskSpawn("s1", t)
  /\ spawnOrder' = Append(spawnOrder, t)
  /\ UNCHANGED <<fileOrder, agentLog, xvars>>

CorrFile(f) ==
  /\ has(sessions, "s1")
  /\ f \notin Range(fileOrder)
  /\ CorrelateAgentFile("s1", f)
  /\ fileOrder' = Append(fileOrder, f)
  /\ UNCHANGED <<spawnOrder, agentLog, xvars>>

NextCorr ==
  \/ CorrRegister
  \/ \E t \in CorrToolIds : CorrSpawn(t)
  \/ \E f \in CorrFileIds : CorrFile(f)

SpecCorr == Init /\ [][NextCorr]_vars

\* SpecDup: one live session, trackTaskSpawn calls with distinct toolUseIds,
\* correlateAgentFile calls that may repeat a file id, and agentCompleted
DupFile(f) ==
  /\ has(sessions, "s1")
  /\ Len(fileOrder) < MaxCorr
  /\ CorrelateAgentFile("s1", f)
  /\ fileOrder' = Append(fileOrder, f)
  /\ UNCHANGED <<spawnOrder, agentLog, xvars>>

DupCompleted(a) ==
  /\ has(sessions, "s1")
  /\ AgentCompleted("s1", a)
  /\ UNCHANGED ovars

NextDup ==
  \/ CorrRegister
  \/ \E t \in CorrToolIds : CorrSpawn(t)
  \/ \E f \in AgentFileIds : DupFile(f)
  \/ \E a \in CorrToolIds : DupCompleted(a)

SpecDup == Init /\ [][NextDup]_vars

\* SpecFrame: one session registered again and again with every project and
\* source while time passes and its correlation state fills
NextFrame ==
  \/ \E p \in Projects, a \in AgentFileIds \cup {NULL}, source \in Sources :
       RegisterSession("s1", p, a, source) /\ UNCHANGED ovars
  \/ \E t \in ToolUseIds : TrackTaskSpawn("s1", t) /\ QueueBounded' /\ UNCHANGED ovars
  \/ \E f \in AgentFileIds : CorrelateAgentFile("s1", f) /\ UNCHANGED ovars
  \/ Tick /\ now < MaxFrameTicks * sessionReapIntervalMs /\ UNCHANGED ovars

SpecFrame == Init /\ [][NextFrame]_vars

\* SpecTimer: the reaper is started, stopped and cleaned up any number of
\* times while a session ages
NextTimer ==
  \/ RegisterSession("s1", "p1", NULL, "claude-code") /\ UNCHANGED ovars
  \/ StartReaper /\ UNCHANGED ovars
  \/ StopReaper /\ UNCHANGED ovars
  \/ Cleanup /\ UNCHANGED ovars
  \/ ReapStaleSessions /\ UNCHANGED ovars
  \/ Tick /\ UNCHANGED ovars

SpecTimer == Init /\ [][NextTimer]_vars

\* SpecWatch: the two log files of one session are appended to while the
\* watcher handles chokidar's 'add' and 'change' reports
NextWatch ==
  \/ \E f \in WatchedFiles : AppendLine(f) /\ UNCHANGED <<cvars, hvars, svars>>
  \/ \E f \in WatchedFiles, recent \in BOOLEAN :
       HandleFileAdd(f, recent) /\ UNCHANGED <<cvars, hvars, svars>>
  \/ \E f \in WatchedFiles : HandleFileChangeStart(f) /\ UNCHANGED <<cvars, hvars, svars>>
  \/ \E i \in 1..Len(inflight) : HandleFileChangeFinish(i) /\ UNCHANGED <<cvars, hvars, svars>>

SpecWatch == Init /\ [][NextWatch]_vars

\* SpecAuth: an AuthManager and its token file over pairings, revocations
\* and restarts
NextAuth ==
  \/ \E code \in PairingCodes, deviceName \in DeviceNames :
       ValidatePairingCode(code, deviceName) /\ UNCHANGED <<cvars, hvars, wvars>>
  \/ \E token \in TokenIds : ValidateToken(token) /\ UNCHANGED <<cvars, hvars, wvars>>
  \/ \E token \in TokenIds : RevokeToken(token) /\ UNCHANGED <<cvars, hvars, wvars>>
  \/ \E code \in PairingCodes : Restart(code) /\ UNCHANGED <<cvars, hvars, wvars>>

SpecAuth == Init /\ [][NextAuth]_vars

\* SpecServer: two WebSockets connect, send messages and close while the
\* server broadcasts events
NextServer ==
  \/ \E ws \in Conns : HandleConnection(ws) /\ UNCHANGED <<cvars, hvars, wvars>>
  \/ \E ws \in Conns, message \in ClientMessages :
       HandleMessage(ws, message) /\ UNCHANGED <<cvars, hvars, wvars>>
  \/ \E ws \in Conns : BeginClose(ws) /\ UNCHANGED <<cvars, hvars, wvars>>
  \/ \E ws \in Conns : SocketClose(ws) /\ UNCHANGED <<cvars, hvars, wvars>>
  \/ \E ws \in Conns : SocketError(ws) /\ UNCHANGED <<cvars, hvars, wvars>>
  \/ ServerBroadcast /\ UNCHANGED <<cvars, hvars, wvars>>

SpecServer == Init /\ [][NextServer]_vars

\* SpecRevoke: WebSockets authenticate with a pairing code or a token while
\* tokens are revoked and the server broadcasts events
RevokeMessages ==
  {Msg("auth", token, code) : token \in {NULL, "k1"}, code \in {NULL, "000001"}}

NextRevoke ==
  \/ \E ws \in Conns : HandleConnection(ws) /\ UNCHANGED <<cvars, hvars, wvars>>
  \/ \E ws \in Conns, message \in RevokeMessages :
       HandleMessage(ws, message) /\ UNCHANGED <<cvars, hvars, wvars>>
  \/ \E ws \in Conns : SocketClose(ws) /\ UNCHANGED <<cvars, hvars, wvars>>
  \/ ServerBroadcast /\ UNCHANGED <<cvars, hvars, wvars>>
  \/ \E token \in TokenIds : RevokeToken(token) /\ UNCHANGED <<cvars, hvars, wvars>>

SpecRevoke == Init /\ [][NextRevoke]_vars

\* SpecAgent: the bridge's handlers on one session with the history of the
\* agentIds it broadcast; the session is removed through removeSession
AgentLines ==
  {ThinkingLine, ResultLine("t1", FALSE, "ok"), ResultLine("t2", TRUE, "Error: failed")}
  \cup {SpawnLine(t) : t \in ToolUseIds}

\* codex records of a collab tool call that is no spawn_agent and of its output
AgentCodexLines ==
  {CodexLine("response_item",
             [Payload("function_call") EXCEPT !.name = "send_input", !.call_id = "t1"]),
   CodexLine("response_item",
             [Payload("function_call_output") EXCEPT !.call_id = "t1", !.output = "ok"])}

\* the files of the session: the main log and one sub-agent log
AgentFiles == {NULL, "f1"}

\* the toolUseIds a line spawns a sub-agent for, and those it reports the result of
SpawnOf(line) == {t \in ToolUseIds : line = SpawnLine(t)}
ResultOf(line) == {t \in ToolUseIds : \E e \in BOOLEAN, x \in {"ok", "Error: failed"} :
                                        line = ResultLine(t, e, x)}

\* the number of Agent events of a batch for agentId t with one of the actions
AgentEvents(out, t, actions) ==
  Cardinality({i \in 1..Len(out) : /\ out[i].type = "agent"
                                   /\ out[i].agentId = t
                                   /\ out[i].action \in actions})

\* the agentIds carried by the non-agent events of a batch
CarriedIds(out) ==
  {out[i].agentId : i \in {j \in 1..Len(out) : out[j].type \notin {"agent", "session"}}}

\* the files' carried agentIds start afresh with a new instance of the session
CarriedBase == IF startedCount'["s1"] > startedCount["s1"]
               THEN NoAgentLog.carried ELSE agentLog.carried

\* no prefix of the batch holds more Agent{completed|error} than Agent{spawned}
\* events of one agentId, counting those broadcast before
Preceded(out) ==
  \A k \in 1..Len(out), t \in ToolUseIds :
    agentLog.ended[t] + AgentEvents(SubSeq(out, 1, k), t, {"completed", "error"})
      <= agentLog.spawned[t] + AgentEvents(SubSeq(out, 1, k), t, {"spawned"})

\* the cap on the spawn records processed
SpawnedSoFar == agentLog.spawned["t1"] + agentLog.spawned["t2"]

LogSession(a) ==
  /\ OnSession("s1", a, "p1", "claude-code")
  /\ agentLog' = [agentLog EXCEPT !.carried = CarriedBase]
  /\ UNCHANGED <<spawnOrder, fileOrder, xvars>>

LogLine(line, a, source) ==
  /\ HandleNewLine(line, "s1", a, "p1", source)
  /\ QueueBounded'
  /\ SpawnedSoFar + Cardinality(SpawnOf(line)) <= MaxAgentEvents
  /\ agentLog' =
       [carried |-> IF a = NULL THEN CarriedBase
                    ELSE [CarriedBase EXCEPT ![a] = @ \cup CarriedIds(broadcast')],
        spawned |-> [t \in ToolUseIds |->
                       agentLog.spawned[t] + AgentEvents(broadcast', t, {"spawned"})],
        ended |-> [t \in ToolUseIds |->
                     agentLog.ended[t] + AgentEvents(broadcast', t, {"completed", "error"})],
        preceded |-> agentLog.preceded /\ Preceded(broadcast'),
        open |-> (agentLog.open \ ResultOf(line)) \cup SpawnOf(line)]
  /\ UNCHANGED <<spawnOrder, fileOrder, xvars>>

NextAgent ==
  \/ \E a \in AgentFiles : LogSession(a)
  \/ \E line \in AgentLines, a \in AgentFiles : LogLine(line, a, "claude-code")
  \/ \E line \in AgentCodexLines : LogLine(line, NULL, "codex")
  \/ RemoveSession("s1") /\ UNCHANGED ovars

SpecAgent == Init /\ [][NextAgent]_vars

(***************************************************************************)
(* Properties                                                              *)
(***************************************************************************)
Live(sid) == has(sessions, sid)
Min(a, b) == IF a <= b THEN a ELSE b

\* the events of out that concern toolUseId t: its Tool events and the
\* Agent events whose agentId is t
ForTool(out, t) ==
  SelectSeq(out, LAMBDA e : \/ e.type = "tool" /\ e.toolUseId = t
                            \/ e.type = "agent" /\ e.agentId = t)

\* C1: within one live session, after any interleaving of trackTaskSpawn
\* calls with distinct toolUseIds S1..Sn and correlateAgentFile calls with
\* distinct file ids F1..Fm, resolveAgentId(Fk) = Sk for every
\* k <= min(n, m), whichever of the two arrived first.
C1_FifoCorrelation ==
  Live("s1") =>
    \A k \in 1..Min(Len(spawnOrder), Len(fileOrder)) :
      resolveAgentId(sessions, "s1", fileOrder[k]) = spawnOrder[k]

\* two files arrived before any spawn and two spawns followed: both pairs bound
C1_Witness ==
  /\ Len(spawnOrder) = 2
  /\ Len(fileOrder) >= 2
  /\ lastOp.op = "trackTaskSpawn"
  /\ Live("s1")
  /\ get(sessions, "s1").deferredAgentFiles = <<>>
  /\ resolveAgentId(sessions, "s1", fileOrder[2]) = spawnOrder[2]

\* C2: in every reachable state no two distinct fileAgentIds are mapped to
\* the same toolUseId, and a fileAgentId that has a map entry is not rebound
\* to another toolUseId while the entry exists.
C2_OneToOne ==
  [][\A sid \in SessionIds :
       has(sessions', sid) =>
         LET map == get(sessions', sid).agentIdMap
         IN /\ \A i, j \in 1..Len(map) : i # j => map[i].tool # map[j].tool
            /\ \A f \in AgentFileIds :
                 (has(sessions, sid) /\ mapHas(get(sessions, sid).agentIdMap, f)
                    /\ mapHas(map, f))
                 => mapGet(map, f) = mapGet(get(sessions, sid).agentIdMap, f)]_vars

\* C3 as claimed: for every sessionId exactly one Session.started is ever
\* emitted and, if the session is ever removed, exactly one Session.ended.
C3_ExactlyOneStartedEver ==
  \A sid \in SessionIds :
    /\ startedCount[sid] <= 1
    /\ endedCount[sid] <= 1
    /\ (Live(sid) \/ endedCount[sid] > 0) => startedCount[sid] = 1

\* C3 amended: every entry of a sessionId into the registry emits exactly one
\* Session.started and every removal exactly one Session.ended; nothing else
\* emits either, and a removed sessionId that is seen again is registered anew.
C3_OneStartedPerRegistration ==
  [][\A sid \in SessionIds :
       /\ startedCount'[sid] =
            startedCount[sid] + (IF ~has(sessions, sid) /\ has(sessions', sid) THEN 1 ELSE 0)
       /\ endedCount'[sid] =
            endedCount[sid] + (IF has(sessions, sid) /\ ~has(sessions', sid) THEN 1 ELSE 0)]_vars

\* a session was removed (explicitly or by the reaper) and a later line
\* registered it again
C3_Witness ==
  /\ startedCount["s1"] = 2
  /\ endedCount["s1"] = 1
  /\ Live("s1")
  /\ lastOp.op = "handleNewLine"

\* C4: registerSession for a sessionId already in the registry emits nothing
\* and only adds the given agentId to agentIds; the call that creates the
\* session emits exactly one Session.started.
C4_RegisterIdempotent ==
  [][lastOp'.op = "registerSession" =>
       LET sid == lastOp'.sid
           added == IF lastOp'.agent = NULL THEN {} ELSE {lastOp'.agent}
       IN IF has(sessions, sid)
          THEN /\ broadcast' = <<>>
               /\ startedCount' = startedCount
               /\ sessions' = put(sessions, [get(sessions, sid) EXCEPT
                                               !.agentIds = @ \cup added])
          ELSE /\ Len(broadcast') = 1
               /\ broadcast'[1].type = "session"
               /\ broadcast'[1].action = "started"
               /\ broadcast'[1].sessionId = sid
               /\ startedCount'[sid] = startedCount[sid] + 1]_vars

\* a second registerSession on a live session with another agentId
C4_Witness ==
  /\ lastOp.op = "registerSession"
  /\ broadcast = <<>>
  /\ Live("s1")
  /\ Cardinality(get(sessions, "s1").agentIds) = 2
  /\ startedCount["s1"] = 1

\* C5: removeSession on a live session deletes its whole SessionState and
\* emits exactly one Session.ended; on an unknown sessionId it changes
\* nothing and emits nothing, so no Session.ended is emitted for a session
\* that was never registered.
C5_RemoveSession ==
  [][lastOp'.op = "removeSession" =>
       LET sid == lastOp'.sid
       IN /\ IF has(sessions, sid)
             THEN /\ sessions' = del(sessions, sid)
                  /\ ~has(sessions', sid)
                  /\ broadcast' = <<createSessionEvent(sid, "ended",
                                       get(sessions, sid).project,
                                       get(sessions, sid).source)>>
                  /\ endedCount'[sid] = endedCount[sid] + 1
                  /\ \A t \in ToolUseIds : ~isTaskPending(sessions', sid, t)
                  /\ \A f \in AgentFileIds : resolveAgentId(sessions', sid, f) = f
             ELSE /\ sessions' = sessions
                  /\ broadcast' = <<>>
                  /\ endedCount' = endedCount
          /\ \A x \in SessionIds : endedCount'[x] <= startedCount'[x]]_vars

\* a session holding correlation state was removed
C5_Witness ==
  /\ lastOp.op = "removeSession"
  /\ Len(broadcast) = 1
  /\ broadcast[1].action = "ended"
  /\ ~Live("s1")
  /\ endedCount["s1"] = 1

\* C6: a sweep removes every session idle for longer than the TTL, emitting
\* exactly one Session.ended for each, and removes no session whose idle
\* time is within the TTL.
C6_ReapStale ==
  [][lastOp'.op = "_reapStaleSessions" =>
       \A sid \in SessionIds :
         IF has(sessions, sid)
         THEN IF now - get(sessions, sid).lastEventAt > sessionTtlMs
              THEN /\ ~has(sessions', sid)
                   /\ endedCount'[sid] = endedCount[sid] + 1
                   /\ Cardinality({i \in 1..Len(broadcast') :
                                     broadcast'[i].sessionId = sid}) = 1
              ELSE /\ has(sessions', sid)
                   /\ get(sessions', sid) = get(sessions, sid)
                   /\ endedCount'[sid] = endedCount[sid]
         ELSE ~has(sessions', sid) /\ endedCount'[sid] = endedCount[sid]]_vars

\* one sweep reaped a stale session and kept one idle for exactly the TTL
C6_Witness ==
  /\ lastOp.op = "_reapStaleSessions"
  /\ Len(broadcast) = 1
  /\ Len(sessions) = 1
  /\ now - sessions[1].lastEventAt = sessionTtlMs

\* C7: however sweeps interleave with record processing, no session instance
\* emits Session.ended twice (never more ended than started events, and a
\* session in the registry has not ended), and a sweep re-creates nothing:
\* it emits no Session.started, at most one event per session, and leaves no
\* session in the registry that was not there before it.
C7_SweepInterleaving ==
  [][/\ \A sid \in SessionIds :
          /\ endedCount'[sid] <= startedCount'[sid]
          /\ has(sessions', sid) => endedCount'[sid] < startedCount'[sid]
     /\ lastOp'.op = "_reapStaleSessions" =>
          /\ startedCount' = startedCount
          /\ \A i \in 1..Len(broadcast') : broadcast'[i].action = "ended"
          /\ \A i, j \in 1..Len(broadcast') :
               i # j => broadcast'[i].sessionId # broadcast'[j].sessionId
          /\ \A sid \in SessionIds : has(sessions', sid) => has(sessions, sid)]_vars

\* a sweep ended the second instance of a session while the other stayed
C7_Witness ==
  /\ lastOp.op = "_reapStaleSessions"
  /\ endedCount["s1"] = 2
  /\ ~Live("s1")
  /\ Live("s2")

\* the line is a result record for toolUseId t
IsResultFor(line, t) ==
  /\ line.text = "json"
  /\ line.type = "user"
  /\ line.userType = "tool_result"
  /\ line.content.kind = "array"
  /\ Len(line.content.blocks) = 1
  /\ line.content.blocks[1].type = "tool_result"
  /\ line.content.blocks[1].id = t

StatusOf(line) ==
  IF line.content.blocks[1].is_error \/ includesError(line.content.blocks[1].text)
  THEN "error" ELSE "completed"

\* C8 as claimed: the result record of a pending spawn broadcasts the Tool
\* event and then the derived Agent event.
C8_ToolThenAgent ==
  [][\A t \in ToolUseIds :
       (/\ lastOp'.op = "handleNewLine"
        /\ IsResultFor(lastOp'.line, t)
        /\ isTaskPending(sessions, lastOp'.sid, t))
       => LET out == ForTool(broadcast', t)
          IN /\ Len(out) = 2
             /\ out[1].type = "tool"
             /\ out[2].type = "agent"]_vars

\* C8 amended: a spawn record broadcasts Tool{spawn_agent, started} then
\* Agent{spawned}; the result record of a spawn that is still pending
\* broadcasts the derived Agent{completed|error} first and the
\* Tool{completed|error} after it, the Agent action being error iff the
\* tool status is error; a result for an id that is not pending broadcasts
\* the Tool event alone.
C8_AgentThenTool ==
  [][\A t \in ToolUseIds :
       /\ (lastOp'.op = "handleNewLine" /\ lastOp'.line = SpawnLine(t))
          => ForTool(broadcast', t) =
               << createToolEvent(lastOp'.sid,
                     resolveAgentId(sessions, lastOp'.sid, lastOp'.agent),
                     "spawn_agent", "task", "started", t, NULL),
                  createAgentEvent(lastOp'.sid, t, "spawned", "general") >>
       /\ (lastOp'.op = "handleNewLine" /\ IsResultFor(lastOp'.line, t))
          => LET out == ForTool(broadcast', t)
                 status == StatusOf(lastOp'.line)
             IN IF isTaskPending(sessions, lastOp'.sid, t)
                THEN /\ Len(out) = 2
                     /\ out[1] = createAgentEvent(lastOp'.sid, t, status, NULL)
                     /\ out[2].type = "tool"
                     /\ out[2].status = status
                     /\ out[2].toolUseId = t
                     /\ ~isTaskPending(sessions', lastOp'.sid, t)
                ELSE /\ Len(out) = 1
                     /\ out[1].type = "tool"
                     /\ out[1].status = status]_vars

\* the result of a pending spawn arrived with an error status
C8_Witness ==
  /\ lastOp.op = "handleNewLine"
  /\ IsResultFor(lastOp.line, "t1")
  /\ Len(broadcast) = 3
  /\ broadcast[1].type = "agent"
  /\ broadcast[1].action = "error"
  /\ broadcast[2].type = "tool"
  /\ broadcast[3].type = "error"

\* C9: handleTaskResult(s, t) returns true iff t is in pendingTaskIds of the
\* live session s, and removes it and nothing else, so that isTaskPending(s, t)
\* is false afterwards and a repeated call returns false; trackTaskSpawn(s, t)
\* on a live session makes t pending.
C9_HandleTaskResult ==
  [][/\ lastOp'.op = "handleTaskResult" =>
          LET sid == lastOp'.sid
              t == lastOp'.tool
          IN /\ lastOp'.ret = isTaskPending(sessions, sid, t)
             /\ ~isTaskPending(sessions', sid, t)
             /\ \A u \in ToolUseIds \ {t} :
                  isTaskPending(sessions', sid, u) = isTaskPending(sessions, sid, u)
             /\ (lastOp.op = "handleTaskResult" /\ lastOp.sid = sid /\ lastOp.tool = t)
                  => ~lastOp'.ret
     /\ lastOp'.op = "trackTaskSpawn" =>
          (has(sessions, lastOp'.sid)
             => isTaskPending(sessions', lastOp'.sid, lastOp'.tool))]_vars

\* handleTaskResult returned true for a tracked spawn
C9_Witness ==
  /\ lastOp.op = "handleTaskResult"
  /\ lastOp.ret
  /\ Live("s1")
  /\ ~isTaskPending(sessions, "s1", lastOp.tool)

\* C10 as claimed: after correlateAgentFile(s, F) is called while
\* pendingSpawnQueue is empty, resolveAgentId(s, F) = F; the next
\* trackTaskSpawn(s, S) makes resolveAgentId(s, F) = S for the files waiting.
C10_DeferredAsClaimed ==
  [][/\ (/\ lastOp'.op = "correlateAgentFile"
         /\ has(sessions, lastOp'.sid)
         /\ get(sessions, lastOp'.sid).pendingSpawnQueue = <<>>)
        => resolveAgentId(sessions', lastOp'.sid, lastOp'.agent) = lastOp'.agent
     /\ (lastOp'.op = "trackTaskSpawn" /\ has(sessions, lastOp'.sid))
        => \A f \in Range(get(sessions, lastOp'.sid).deferredAgentFiles) :
             resolveAgentId(sessions', lastOp'.sid, f) = lastOp'.tool]_vars

\* C10 amended: correlateAgentFile(s, F) for a file F without a map entry,
\* called while pendingSpawnQueue is empty, defers F, and a deferred file
\* resolves to itself until the next trackTaskSpawn; that trackTaskSpawn(s, S)
\* binds the oldest deferred file alone, and a binding F -> S stays until
\* agentCompleted(s, S) or the removal of the session.
C10_Deferred ==
  [][\A sid \in SessionIds :
       has(sessions, sid) =>
         LET session == get(sessions, sid)
         IN /\ (/\ lastOp'.op = "correlateAgentFile" /\ lastOp'.sid = sid
                /\ session.pendingSpawnQueue = <<>>
                /\ ~mapHas(session.agentIdMap, lastOp'.agent))
               => /\ lastOp'.agent \in Range(get(sessions', sid).deferredAgentFiles)
                  /\ resolveAgentId(sessions', sid, lastOp'.agent) = lastOp'.agent
            /\ \A f \in Range(session.deferredAgentFiles) :
                 IF lastOp'.op = "trackTaskSpawn"
                 THEN IF f = Head(session.deferredAgentFiles)
                      THEN resolveAgentId(sessions', sid, f) = lastOp'.tool
                      ELSE /\ resolveAgentId(sessions', sid, f) = f
                           /\ f \in Range(get(sessions', sid).deferredAgentFiles)
                 ELSE resolveAgentId(sessions', sid, f) = f
            /\ \A f \in AgentFileIds :
                 (/\ mapHas(session.agentIdMap, f)
                  /\ lastOp'.op # "removeSession"
                  /\ ~(lastOp'.op = "agentCompleted"
                       /\ lastOp'.agent = mapGet(session.agentIdMap, f)))
                 => resolveAgentId(sessions', sid, f) = mapGet(session.agentIdMap, f)]_vars

\* two files were deferred and a spawn bound the older one
C10_Witness ==
  /\ lastOp.op = "trackTaskSpawn"
  /\ Live("s1")
  /\ get(sessions, "s1").deferredAgentFiles = <<"f2">>
  /\ get(sessions, "s1").pendingSpawnQueue = <<>>
  /\ resolveAgentId(sessions, "s1", "f1") = lastOp.tool

\* number of occurrences of x in the sequence q
Occurrences(q, x) == Cardinality({i \in 1..Len(q) : q[i] = x})

\* C11 as claimed: a call of correlateAgentFile(s, F) that follows an earlier
\* call for the same F in the session's lifetime consumes no entry of
\* pendingSpawnQueue, leaves resolveAgentId(s, F) unchanged and never puts F
\* twice into deferredAgentFiles.
C11_NeverTwoSlots ==
  [][(/\ lastOp'.op = "correlateAgentFile"
      /\ has(sessions, lastOp'.sid)
      /\ lastOp'.agent \in Range(fileOrder))
     => LET sid == lastOp'.sid
            F == lastOp'.agent
        IN /\ get(sessions', sid).pendingSpawnQueue = get(sessions, sid).pendingSpawnQueue
           /\ resolveAgentId(sessions', sid, F) = resolveAgentId(sessions, sid, F)
           /\ Occurrences(get(sessions', sid).deferredAgentFiles, F) <= 1]_vars

\* C11 amended: a call of correlateAgentFile(s, F) while F has a map entry
\* or waits in deferredAgentFiles changes nothing (no entry of
\* pendingSpawnQueue is consumed, resolveAgentId(s, F) stays), and no file
\* ever occurs twice in deferredAgentFiles; a call for an F that has neither
\* (a new file, or one whose entry agentCompleted has removed) consumes the
\* oldest pending spawn and binds F to it.
C11_MappedOrDeferredNoOp ==
  [][(lastOp'.op = "correlateAgentFile" /\ has(sessions, lastOp'.sid))
     => LET sid == lastOp'.sid
            F == lastOp'.agent
            session == get(sessions, sid)
        IN /\ IF mapHas(session.agentIdMap, F) \/ F \in Range(session.deferredAgentFiles)
              THEN sessions' = sessions
              ELSE IF session.pendingSpawnQueue # <<>>
              THEN /\ get(sessions', sid).pendingSpawnQueue = Tail(session.pendingSpawnQueue)
                   /\ resolveAgentId(sessions', sid, F) = Head(session.pendingSpawnQueue)
              ELSE get(sessions', sid).deferredAgentFiles
                     = Append(session.deferredAgentFiles, F)
           /\ \A f \in AgentFileIds :
                Occurrences(get(sessions', sid).deferredAgentFiles, f) <= 1]_vars

\* two spawns were pending and the same file was correlated twice: the
\* second spawn is still in the queue
C11_Witness ==
  /\ lastOp.op = "correlateAgentFile"
  /\ lastOp.agent = "f1"
  /\ fileOrder = <<"f1", "f1">>
  /\ spawnOrder = <<"t1", "t2">>
  /\ Live("s1")
  /\ get(sessions, "s1").pendingSpawnQueue = <<"t2">>
  /\ resolveAgentId(sessions, "s1", "f1") = "t1"

\* C12: after agentCompleted(s, id) on a live session, id is not in agentIds
\* and no fileAgentId is mapped to id, so resolveAgentId(s, F) = F for every
\* file F that had been bound to id.
C12_AgentCompleted ==
  [][(lastOp'.op = "agentCompleted" /\ has(sessions, lastOp'.sid))
     => LET sid == lastOp'.sid
            id == lastOp'.agent
            before == get(sessions, sid).agentIdMap
            after == get(sessions', sid).agentIdMap
        IN /\ id \notin get(sessions', sid).agentIds
           /\ \A i \in 1..Len(after) : after[i].tool # id
           /\ \A i \in 1..Len(before) :
                before[i].tool = id
                  => resolveAgentId(sessions', sid, before[i].file) = before[i].file]_vars

\* C13: every registry operation called with a sessionId that is not in the
\* registry is a no-op: recordActivity, removeSession, trackTaskSpawn,
\* agentCompleted and correlateAgentFile leave the registry unchanged and
\* emit nothing, handleTaskResult and isTaskPending return false, and
\* resolveAgentId returns the given fileAgentId, as it also does for a live
\* session that has no map entry for it.
C13_UnknownSessionNoOp ==
  [][/\ (/\ lastOp'.op \in {"recordActivity", "removeSession", "trackTaskSpawn",
                             "agentCompleted", "correlateAgentFile", "handleTaskResult"}
         /\ ~has(sessions, lastOp'.sid))
        => /\ sessions' = sessions
           /\ broadcast' = <<>>
           /\ startedCount' = startedCount
           /\ endedCount' = endedCount
           /\ ~lastOp'.ret
     /\ \A sid \in SessionIds :
          /\ ~has(sessions', sid) =>
               /\ \A t \in ToolUseIds : ~isTaskPending(sessions', sid, t)
               /\ \A f \in AgentFileIds \cup ToolUseIds :
                    resolveAgentId(sessions', sid, f) = f
          /\ has(sessions', sid) =>
               \A f \in AgentFileIds \cup ToolUseIds :
                 ~mapHas(get(sessions', sid).agentIdMap, f)
                   => resolveAgentId(sessions', sid, f) = f]_vars

\* trackTaskSpawn was called for a session that had been removed
C13_Witness ==
  /\ lastOp.op = "trackTaskSpawn"
  /\ lastOp.sid = "s1"
  /\ ~Live("s1")
  /\ sessions = <<>>
  /\ endedCount["s1"] = 1
  /\ broadcast = <<>>

\* the getState() entry of a live session
StateOf(reg, sid) == getState(reg)[idx(reg, sid)]

\* C14: agentIds holds the active sub-agents in resolved form: while a
\* sub-agent file F is bound to toolUseId T, the agentIds reported by
\* getState name the agent as T and not as F, and after the pipeline has
\* processed the result record for T neither T nor F is in them.
C14_AgentIdsResolved ==
  [][\A sid \in SessionIds :
       has(sessions', sid) =>
         LET after == get(sessions', sid).agentIdMap
             reported == StateOf(sessions', sid).agentIds
         IN /\ \A i \in 1..Len(after) :
                 /\ after[i].tool \in reported
                 /\ after[i].file \notin reported
            /\ \A t \in ToolUseIds :
                 (/\ lastOp'.op = "handleNewLine" /\ lastOp'.sid = sid
                  /\ IsResultFor(lastOp'.line, t)
                  /\ isTaskPending(sessions, sid, t))
                 => /\ t \notin reported
                    /\ \A i \in 1..Len(get(sessions, sid).agentIdMap) :
                         get(sessions, sid).agentIdMap[i].tool = t
                           => get(sessions, sid).agentIdMap[i].file \notin reported]_vars

\* C15: getState() returns one entry for each session in the registry and
\* none for a removed session, each entry holding exactly sessionId, project,
\* source, lastEventAt, agentIds and pendingTaskIds of that session (never
\* pendingSpawnQueue, agentIdMap or deferredAgentFiles), and a call of
\* getState changes no registry state and emits no event.
C15_GetState ==
  [][/\ LET snapshot == getState(sessions')
        IN /\ Len(snapshot) = Len(sessions')
           /\ \A sid \in SessionIds :
                Cardinality({i \in 1..Len(snapshot) : snapshot[i].sessionId = sid})
                  = IF has(sessions', sid) THEN 1 ELSE 0
           /\ \A i \in 1..Len(snapshot) :
                LET session == get(sessions', snapshot[i].sessionId)
                IN /\ DOMAIN snapshot[i] = {"sessionId", "project", "source", "lastEventAt",
                                            "agentIds", "pendingTaskIds"}
                   /\ snapshot[i].project = session.project
                   /\ snapshot[i].source = session.source
                   /\ snapshot[i].lastEventAt = toISOString(session.lastEventAt)
                   /\ snapshot[i].agentIds = session.agentIds
                   /\ snapshot[i].pendingTaskIds = session.pendingTaskIds
     /\ lastOp'.op = "getState" =>
          /\ sessions' = sessions
          /\ broadcast' = <<>>
          /\ startedCount' = startedCount
          /\ endedCount' = endedCount
          /\ reapTimer' = reapTimer]_vars

\* getState was called after one of two sessions had been removed
C15_Witness ==
  /\ lastOp.op = "getState"
  /\ Len(getState(sessions)) = 1
  /\ getState(sessions)[1].sessionId = "s2"
  /\ endedCount["s1"] = 1
  /\ startedCount["s2"] = 1

Swap(txt) ==
  CASE txt = "alpha" -> "beta"
    [] txt = "beta" -> "alpha"
    [] txt = "Error: failed" -> "Error: denied"
    [] txt = "Error: denied" -> "Error: failed"
    [] OTHER -> txt

\* the same record with other free-form text: thinking, response and prompt
\* text, tool output, command lines, search queries, URLs and file contents
RetextInput(input) ==
  [input EXCEPT !.command = Swap(@), !.CommandLine = Swap(@), !.query = Swap(@),
                !.url = Swap(@), !.content = Swap(@)]
RetextBlocks(blocks) ==
  [i \in 1..Len(blocks) |->
     [blocks[i] EXCEPT !.text = Swap(@), !.input = RetextInput(@)]]
RetextContent(content) ==
  [content EXCEPT !.text = Swap(@), !.blocks = RetextBlocks(@)]
Retext(line) ==
  [line EXCEPT !.content = RetextContent(@),
               !.payload = [@ EXCEPT !.output = Swap(@),
                                     !.content = RetextContent(@),
                                     !.arguments = [@ EXCEPT !.args = RetextInput(@)]]]

\* C17: for every adapter, two records that differ only in free-form text
\* (thinking, response or prompt text, command lines, search queries, URLs,
\* file contents, tool output of the same error classification) produce the
\* same events, and none of that text is in the detail, context or agentRole
\* of an event.
C17_NoFreeText ==
  (lastOp.op = "adapt" /\ ~lastOp.raised) =>
    LET other == parseJsonlLine(Retext(lastOp.line), lastOp.sid, lastOp.agent)
    IN /\ ~adaptRaises(lastOp.source, other)
       /\ adapt(lastOp.source, other) = broadcast
       /\ \A i \in 1..Len(broadcast) :
            /\ broadcast[i].detail \notin FreeTexts
            /\ broadcast[i].context \notin FreeTexts
            /\ broadcast[i].agentRole \notin FreeTexts

\* the last step applied claudeCodeAdapter to an assistant record holding one
\* tool_use block
ClaudeToolUse ==
  /\ lastOp.op = "adapt"
  /\ lastOp.source = "claude-code"
  /\ lastOp.line.type = "assistant"
  /\ lastOp.line.content.kind = "array"
  /\ Len(lastOp.line.content.blocks) = 1
  /\ lastOp.line.content.blocks[1].type = "tool_use"

\* the per-tool allowlist: the one value of the input that may become the context
AllowedContext(name, input) ==
  CASE name \in {"Read", "Write", "Edit"} -> toBasename(input.file_path)
    [] name = "NotebookEdit" -> toBasename(input.notebook_path)
    [] name = "Bash" -> Opt(input.description)
    [] name \in {"Grep", "Glob"} -> Opt(input.pattern)
    [] name = "Task" -> Opt(input.subagent_type)
    [] name = "TodoWrite" -> IF input.todos >= 0 THEN ToString(input.todos) \o " items"
                             ELSE NULL
    [] OTHER -> NULL

KnownTools ==
  {"Read", "Write", "Edit", "Bash", "Grep", "Glob", "WebFetch", "WebSearch", "Task",
   "TodoWrite", "EnterPlanMode", "ExitPlanMode", "AskUserQuestion", "NotebookEdit"}

\* C18: in claudeCodeAdapter the context of a Tool{started} event is the
\* allowlisted value of its tool (basename of file_path for Read/Write/Edit,
\* basename of notebook_path for NotebookEdit, description for Bash, pattern
\* for Grep/Glob, subagent_type for Task, the item count for TodoWrite) and
\* is absent for every other tool; an unknown tool has category other and
\* its name as detail; two inputs with the same allowlisted value yield the
\* same event.
C18_ContextAllowlist ==
  ClaudeToolUse =>
    LET block == lastOp.line.content.blocks[1]
        event == broadcast[1]
    IN /\ event.type = "tool"
       /\ event.status = "started"
       /\ event.toolUseId = block.id
       /\ event.context = AllowedContext(block.name, block.input)
       /\ block.name \notin KnownTools =>
            /\ event.tool = "other"
            /\ event.detail = block.name
            /\ event.context = NULL
       /\ block.name \in {"WebFetch", "WebSearch"} => event.context = NULL
       /\ \A input \in AdaptToolInputs :
            AllowedContext(block.name, input) = AllowedContext(block.name, block.input)
            => claudeCodeAdapter(parseJsonlLine(
                 JsonLine("assistant", NULL,
                          ArrayContent(<<ToolUseWith(block.name, block.id, input)>>)),
                 lastOp.sid, lastOp.agent))[1] = event

\* a Bash call with a command and a description: the description is the context
C18_Witness ==
  /\ ClaudeToolUse
  /\ lastOp.line.content.blocks[1].name = "Bash"
  /\ lastOp.line.content.blocks[1].input.command = "alpha"
  /\ lastOp.line.content.blocks[1].input.CommandLine = NULL
  /\ broadcast[1].context = "run tests"
  /\ broadcast[1].detail = "bash"

\* C19: no adapter raises for a structurally incomplete record (missing
\* message, missing or empty content, missing payload, missing tool input,
\* content blocks that are not objects, unrecognized or inert kinds): every
\* adapter returns an event list, and the list is empty for a record without
\* content or payload.
C19_NeverRaises ==
  lastOp.op = "adapt" =>
    /\ ~lastOp.raised
    /\ (/\ lastOp.line.type # "summary"
        /\ lastOp.line.content.kind = "absent"
        /\ ~lastOp.line.payload.present)
       => broadcast = <<>>

\* the events of out that are not Session events
AdapterEvents(out) == SelectSeq(out, LAMBDA e : e.type # "session")

\* the operation processed a line that is dropped: text that is not a JSON
\* record, or a record of a source without adapter
Dropped(op) ==
  /\ op.op = "handleNewLine"
  /\ \/ op.line.text \in {"empty", "blank", "garbage"}
     \/ op.source # "claude-code"

\* C20: parseJsonlLine returns null for empty, whitespace-only and non-JSON
\* text, and transformToPixelEvents returns an empty list for a source
\* without adapter, neither throwing; the pipeline broadcasts no adapter
\* event for such a line, leaves the correlation state as it was, and
\* processes the line that follows: a thinking record that comes next is
\* broadcast as Activity{thinking}.
C20_DropAndContinue ==
  [][/\ Dropped(lastOp') =>
          LET sid == lastOp'.sid
              raw == parseJsonlLine(lastOp'.line, sid, lastOp'.agent)
          IN /\ ~lastOp'.raised
             /\ lastOp'.line.text \in {"empty", "blank", "garbage"} => ~raw.parsed
             /\ (raw.parsed /\ lastOp'.source # "claude-code")
                  => transformToPixelEvents(raw, lastOp'.source) = <<>>
             /\ AdapterEvents(broadcast') = <<>>
             /\ has(sessions', sid)
             /\ has(sessions, sid) =>
                  sessions' = put(sessions, [get(sessions, sid) EXCEPT
                                 !.lastEventAt = get(sessions', sid).lastEventAt])
     /\ (/\ Dropped(lastOp)
         /\ lastOp'.op = "handleNewLine"
         /\ lastOp'.line = ThinkingLine
         /\ lastOp'.source = "claude-code")
        => AdapterEvents(broadcast')
             = <<createActivityEvent(lastOp'.sid,
                   resolveAgentId(sessions, lastOp'.sid, lastOp'.agent),
                   "thinking", NoTokens)>>]_vars

\* a record of a source without adapter arrived for a live session
C20_Witness ==
  /\ lastOp.op = "handleNewLine"
  /\ lastOp.source = "other"
  /\ lastOp.line = SpawnLine("t1")
  /\ Live("s1")
  /\ startedCount["s1"] = 1
  /\ broadcast = <<>>
  /\ get(sessions, "s1").pendingSpawnQueue = <<>>

\* C21: transformToPixelEvents routes a record to the adapter of its source
\* tag: for source 'codex' the result is codexAdapter(raw).
C21_RoutesCodex ==
  (/\ lastOp.op = "transform"
   /\ lastOp.source = "codex"
   /\ ~codexAdapterRaises(parseJsonlLine(lastOp.line, lastOp.sid, lastOp.agent)))
  => broadcast = codexAdapter(parseJsonlLine(lastOp.line, lastOp.sid, lastOp.agent))

\* the record is a tool result holding one tool_result block
OneResultBlock(line) ==
  /\ line.type = "user"
  /\ line.userType = "tool_result"
  /\ line.content.kind = "array"
  /\ Len(line.content.blocks) = 1
  /\ line.content.blocks[1].type = "tool_result"

\* the status the classification rule gives: error when the flag is set or
\* the textual output contains "Error"
ResultStatus(flag, output) ==
  IF flag \/ output \in ErrorTexts THEN "error" ELSE "completed"

\* C22: a tool-result block yields a Tool event whose status is error iff
\* its error flag is set or its textual output contains "Error", and
\* completed otherwise; every Tool{error} is immediately followed by one
\* Error{warning} of the same session and agent.
C22_ResultStatus ==
  (lastOp.op = "adapt" /\ ~lastOp.raised) =>
    /\ \A i \in 1..Len(broadcast) :
         (broadcast[i].type = "tool" /\ broadcast[i].status = "error") =>
           /\ i < Len(broadcast)
           /\ broadcast[i + 1].type = "error"
           /\ broadcast[i + 1].severity = "warning"
           /\ broadcast[i + 1].sessionId = broadcast[i].sessionId
           /\ broadcast[i + 1].agentId = broadcast[i].agentId
    /\ \A i \in 1..Len(broadcast) :
         broadcast[i].type = "error" =>
           i > 1 /\ broadcast[i - 1].type = "tool" /\ broadcast[i - 1].status = "error"
    /\ (lastOp.source \in {"claude-code", "antigravity"} /\ OneResultBlock(lastOp.line)) =>
         /\ broadcast # <<>>
         /\ broadcast[1].type = "tool"
         /\ broadcast[1].toolUseId = lastOp.line.content.blocks[1].id
         /\ broadcast[1].status = ResultStatus(lastOp.line.content.blocks[1].is_error,
                                               lastOp.line.content.blocks[1].text)
         /\ Len(broadcast) = IF broadcast[1].status = "error" THEN 2 ELSE 1
    /\ (/\ lastOp.source = "codex"
        /\ lastOp.line.type = "response_item"
        /\ lastOp.line.payload.present
        /\ lastOp.line.payload.type \in {"function_call_output", "custom_tool_call_output"}) =>
         /\ broadcast # <<>>
         /\ broadcast[1].type = "tool"
         /\ broadcast[1].status = ResultStatus(FALSE, lastOp.line.payload.output)
         /\ Len(broadcast) = IF broadcast[1].status = "error" THEN 2 ELSE 1

\* the agent-spawn tool of each source
SpawnTool(source) ==
  CASE source = "claude-code" -> "Task"
    [] source = "codex" -> "spawn_agent"
    [] source = "antigravity" -> "spawnAgent"

\* the record is one tool invocation that the adapter of the source handles
IsInvocation(op) ==
  \/ /\ op.source = "claude-code" /\ op.line.type = "assistant"
     /\ op.line.content.kind = "array" /\ Len(op.line.content.blocks) = 1
     /\ op.line.content.blocks[1].type = "tool_use"
  \/ /\ op.source = "antigravity" /\ op.line.type \in {"assistant", "model"}
     /\ op.line.content.kind = "array" /\ Len(op.line.content.blocks) = 1
     /\ op.line.content.blocks[1].type = "tool_use"
  \/ /\ op.source = "codex" /\ op.line.type = "response_item"
     /\ op.line.payload.present /\ op.line.payload.type = "function_call"

InvokedTool(op) ==
  IF op.source = "codex" THEN op.line.payload.name ELSE op.line.content.blocks[1].name

InvokedId(op) ==
  IF op.source = "codex" THEN op.line.payload.call_id ELSE op.line.content.blocks[1].id

\* the role field of the invocation's input, or the default role of the source
SpawnRole(op) ==
  CASE op.source = "claude-code" ->
         IF op.line.content.blocks[1].input.subagent_type \in {NULL, ""} THEN "general"
         ELSE op.line.content.blocks[1].input.subagent_type
    [] op.source = "antigravity" ->
         IF op.line.content.blocks[1].input.type \in {NULL, ""} THEN "general"
         ELSE op.line.content.blocks[1].input.type
    [] op.source = "codex" -> "collab"

\* C23: an invocation of the source's agent-spawn tool yields exactly a
\* Tool{spawn_agent, started} event followed by one Agent{spawned} event
\* whose agentId is the tool's toolUseId and whose agentRole is the role
\* field of the input or the default role; no other tool invocation yields
\* an Agent event.
C23_SpawnYieldsAgent ==
  (lastOp.op = "adapt" /\ ~lastOp.raised) =>
    /\ (IsInvocation(lastOp) /\ InvokedTool(lastOp) = SpawnTool(lastOp.source)) =>
         /\ Len(broadcast) = 2
         /\ broadcast[1].type = "tool"
         /\ broadcast[1].tool = "spawn_agent"
         /\ broadcast[1].status = "started"
         /\ broadcast[1].toolUseId = InvokedId(lastOp)
         /\ broadcast[2].type = "agent"
         /\ broadcast[2].action = "spawned"
         /\ broadcast[2].agentId = broadcast[1].toolUseId
         /\ broadcast[2].agentRole = SpawnRole(lastOp)
    /\ (\E i \in 1..Len(broadcast) : broadcast[i].type = "agent") =>
         IsInvocation(lastOp) /\ InvokedTool(lastOp) = SpawnTool(lastOp.source)

\* the numbers of the lines of a file delivered so far, in delivery order
Delivered(filePath) ==
  LET sigs == SelectSeq(emitted, LAMBDA e : e.signal = "line" /\ e.filePath = filePath)
  IN [i \in 1..Len(sigs) |-> sigs[i].line]

\* C24: the tailer emits one 'line' signal per line appended to a watched
\* file, in file order, whatever the interleaving of appends and change
\* handling: the lines delivered from a file are consecutive, none twice,
\* none skipped, none before an earlier one.
C24_LinesOnceInOrder ==
  \A f \in WatchedFiles :
    \A i \in 1..(Len(Delivered(f)) - 1) : Delivered(f)[i + 1] = Delivered(f)[i] + 1

\* C25: every 'line' signal of a file is preceded by a 'session' signal
\* carrying that file's sessionId and agentId.
C25_DiscoveryBeforeLines ==
  \A j \in 1..Len(emitted) :
    emitted[j].signal = "line" =>
      \E i \in 1..(j - 1) :
        /\ emitted[i].signal = "session"
        /\ emitted[i].filePath = emitted[j].filePath
        /\ emitted[i].sessionId = emitted[j].sessionId
        /\ emitted[i].agentId = emitted[j].agentId

\* C27: the pairing code is one-time: once validatePairingCode has issued a
\* token for the code of this AuthManager, a later call with the same code
\* returns null and issues no token.
C27_CodeOneTime ==
  [][(/\ authHist'.last.op = "validatePairingCode"
      /\ authHist'.last # authHist.last
      /\ authHist.codeUsed
      /\ authHist'.last.code = auth.pairingCode)
     => /\ authHist'.last.ret = NULL
        /\ authHist'.issued = authHist.issued]_vars

\* C28: tokens persist across restarts: a new AuthManager on the same token
\* file accepts exactly the tokens that were issued and not revoked.
C28_TokensPersist ==
  authHist.last.op = "restart" =>
    \A token \in TokenIds :
      validateToken(A, token) <=> token \in (authHist.issued \ authHist.revoked)

\* a restart with one token issued and kept and another issued and revoked
C28_Witness ==
  /\ authHist.last.op = "restart"
  /\ authHist.issued \ authHist.revoked # {}
  /\ authHist.revoked # {}
  /\ \E token \in authHist.issued \ authHist.revoked : validateToken(A, token)
  /\ \E token \in authHist.revoked : ~validateToken(A, token)

\* C26: a message is sent only to a WebSocket that is connected; event and
\* state messages go only to a client that has authenticated on that
\* connection with the current pairing code or a valid token; a client that
\* has not receives only welcome, pong, auth_success and auth_failed; after
\* close or error nothing is sent.
C26_OnlyAuthenticated ==
  [][\A c \in Conns :
       sent'[c] # sent[c] =>
         /\ Len(sent'[c]) = Len(sent[c]) + 1
         /\ SubSeq(sent'[c], 1, Len(sent[c])) = sent[c]
         /\ sockets'[c] = "OPEN"
         /\ c \in server'.clients
         /\ sent'[c][Len(sent'[c])] \in {"event", "state"} =>
              /\ c \in authHist.proved
              /\ c \in server.authenticatedClients
         /\ c \notin authHist'.proved =>
              sent'[c][Len(sent'[c])] \in {"welcome", "pong", "auth_failed"}
         /\ c \notin authHist.proved =>
              sent'[c][Len(sent'[c])] \in {"welcome", "pong", "auth_success", "auth_failed"}]_vars

\* an event was broadcast while one client was authenticated and another was
\* connected and had failed to authenticate
C26_Witness ==
  /\ authHist.last.op = "broadcast"
  /\ \E c \in Conns, d \in Conns :
       /\ c \in authHist.proved
       /\ sent[c] # <<>> /\ sent[c][Len(sent[c])] = "event"
       /\ d \notin authHist.proved
       /\ sockets[d] = "OPEN"
       /\ "auth_failed" \in Range(sent[d])
       /\ "event" \notin Range(sent[d])

\* C29: registerSession on a sessionId already in the registry leaves
\* project, source, lastEventAt, pendingTaskIds, pendingSpawnQueue,
\* agentIdMap and deferredAgentFiles as they were, whatever project and
\* source it is called with; agentIds can only grow.
C29_RegisterFrame ==
  [][(lastOp'.op = "registerSession" /\ has(sessions, lastOp'.sid)) =>
       /\ has(sessions', lastOp'.sid)
       /\ LET old == get(sessions, lastOp'.sid)
              new == get(sessions', lastOp'.sid)
          IN /\ new.project = old.project
             /\ new.source = old.source
             /\ new.lastEventAt = old.lastEventAt
             /\ new.pendingTaskIds = old.pendingTaskIds
             /\ new.pendingSpawnQueue = old.pendingSpawnQueue
             /\ new.agentIdMap = old.agentIdMap
             /\ new.deferredAgentFiles = old.deferredAgentFiles
             /\ old.agentIds \subseteq new.agentIds]_vars

\* registerSession was called on a session created earlier whose correlation
\* state is not empty
C29_Witness ==
  /\ lastOp.op = "registerSession"
  /\ has(sessions, "s1")
  /\ get(sessions, "s1").lastEventAt < now
  /\ get(sessions, "s1").pendingSpawnQueue # <<>>
  /\ get(sessions, "s1").pendingTaskIds # {}
  /\ get(sessions, "s1").agentIdMap # <<>>
  /\ get(sessions, "s1").agentIds # {}

\* C30: at most one reaper timer is active however often startReaper is
\* called; after stopReaper or cleanup no timer is left, and a sweep runs
\* only while the reaper is started.
C30_OneTimer ==
  [][/\ timers' <= 1
     /\ lastOp'.op \in {"stopReaper", "cleanup"} => (timers' = 0 /\ ~reapTimer')
     /\ lastOp'.op = "startReaper" => (timers' = 1 /\ reapTimer')
     /\ (lastOp'.op = "_reapStaleSessions" /\ lastOp' # lastOp) => (reapTimer /\ timers = 1)
     /\ (~reapTimer /\ has(sessions, "s1") /\ lastOp'.op # "cleanup") => has(sessions', "s1")]_vars

\* the reaper was stopped and a session past its time to live is still
\* registered
C30_Witness ==
  /\ lastOp.op = "stopReaper"
  /\ timers = 0
  /\ has(sessions, "s1")
  /\ now - get(sessions, "s1").lastEventAt > sessionTtlMs

\* the toolUseIds that are values of an agentIdMap
MapValues(map) == {map[i].tool : i \in 1..Len(map)}

\* C31: in every session no fileAgentId is both in deferredAgentFiles and a
\* key of agentIdMap, deferredAgentFiles has no duplicates, and no toolUseId
\* is both in pendingSpawnQueue and a value of agentIdMap.
C31_QueueMapDisjoint ==
  \A i \in 1..Len(sessions) :
    LET session == sessions[i]
    IN /\ \A f \in Range(session.deferredAgentFiles) : ~mapHas(session.agentIdMap, f)
       /\ \A j, k \in 1..Len(session.deferredAgentFiles) :
            session.deferredAgentFiles[j] = session.deferredAgentFiles[k] => j = k
       /\ Range(session.pendingSpawnQueue) \cap MapValues(session.agentIdMap) = {}

\* C32: every entry of a session's pendingSpawnQueue is also in its
\* pendingTaskIds, so a toolUseId whose result has been handled can no longer
\* be bound to a sub-agent file that arrives later.
C32_QueuedArePending ==
  \A i \in 1..Len(sessions) :
    Range(sessions[i].pendingSpawnQueue) \subseteq sessions[i].pendingTaskIds

\* C33: all events broadcast for lines of one sub-agent file carry the same
\* agentId during the life of the session.
C33_OneAgentIdPerFile ==
  \A f \in AgentFileIds : Cardinality(agentLog.carried[f]) <= 1

C35_OneEndPerSpawn ==
  [][lastOp'.op = "handleNewLine" =>
       \A t \in ResultOf(lastOp'.line) \cap agentLog.open :
         AgentEvents(broadcast', t, {"completed", "error"}) = 1]_vars

\* walking a batch in broadcast order: every event of sid that is no session
\* event comes while sid is registered, Session.started and Session.ended
\* switching that on and off
RECURSIVE WhileRegistered(_, _, _)
WhileRegistered(out, sid, registered) ==
  IF out = <<>> THEN TRUE
  ELSE LET event == Head(out)
       IN IF event.sessionId # sid THEN WhileRegistered(Tail(out), sid, registered)
          ELSE IF event.type = "session"
               THEN WhileRegistered(Tail(out), sid, event.action = "started")
               ELSE registered /\ WhileRegistered(Tail(out), sid, registered)

\* C36: every activity, tool, agent, error or summary event of a sessionId is
\* broadcast while the session is in the registry, after the Session.started
\* of its current instance and before its Session.ended.
C36_EventsWhileRegistered ==
  [][\A sid \in SessionIds :
       /\ WhileRegistered(broadcast', sid, has(sessions, sid))
       /\ (\E i \in 1..Len(broadcast') :
             broadcast'[i].sessionId = sid /\ broadcast'[i].type # "session")
          => has(sessions', sid)]_vars

\* a line of the removed session s1 registered it again and broadcast its
\* event after the Session.started
C36_Witness ==
  /\ lastOp.op = "handleNewLine"
  /\ startedCount["s1"] = 2
  /\ endedCount["s1"] = 1
  /\ Len(broadcast) = 2
  /\ broadcast[1].type = "session"
  /\ broadcast[1].action = "started"
  /\ broadcast[2].type = "activity"
  /\ has(sessions, "s1")

\* C37: a sessionId is in the registry iff one more Session.started than
\* Session.ended event was emitted for it, and the two counts are equal when it
\* is not; so after removeSession, reaper sweeps and cleanup.
C37_StartedMinusEnded ==
  \A sid \in SessionIds :
    startedCount[sid] - endedCount[sid] = IF has(sessions, sid) THEN 1 ELSE 0

\* C38: processing a line that fails to parse (empty, whitespace-only or
\* invalid JSON) leaves the registry as it was: no session is created, no
\* Session.started is emitted, and lastEventAt and the correlation state of
\* every session are unchanged.
C38_UnparseableIsNoOp ==
  [][(/\ lastOp'.op = "handleNewLine"
      /\ lastOp'.line.text \in {"empty", "blank", "garbage"})
     => /\ sessions' = sessions
        /\ broadcast' = <<>>
        /\ startedCount' = startedCount]_vars

\* C39: after revokeToken(t) returned true no event is sent to a connection
\* that authenticated with t, and t is rejected by every later auth attempt.
C39_RevokedGetsNothing ==
  [][/\ \A t \in authHist'.revoked :
          ~validateToken([auth |-> auth', file |-> tokenFile'], t)
     /\ \A c \in Conns :
          (/\ Len(sent'[c]) > Len(sent[c])
           /\ sent'[c][Len(sent'[c])] = "event")
          => authHist.tokenOf[c] \notin authHist.revoked]_vars

====
